---- MODULE Spec2Model ----
(***************************************************************************)
(* Model of the print-job submission pipeline of printing_ffi              *)
(* (src/src/printing_ffi.c), Windows path: raw_data_to_printer,            *)
(* submit_raw_data_job, print_pdf, submit_pdf_job and the helpers they     *)
(* use.  Every call the code makes on a collaborator (spooler, GDI device  *)
(* context, PDF library, message queue) is appended to the trace `calls`,  *)
(* with the result the collaborator gave.                                  *)
(***************************************************************************)
EXTENDS Integers, Sequences, FiniteSets, TLC

(***************************************************************************)
(* Bounds of the model.                                                    *)
(***************************************************************************)
MaxPages == 6          \* FPDF_GetPageCount answers at most this many pages
MaxJobId == 1          \* the spooler hands out job identifiers 1..MaxJobId
MaxWrites == 4         \* WritePrinter calls explored in one submission
MaxEvents == 4         \* error-slot calls of the threads that are followed
ParsePages == 3        \* page counts handed to parse_page_range on its own
MaxTokens == 2         \* tokens of a generated page-range string
MaxOptions == 2        \* pairs of a generated option list
MaxSrc == 7            \* source dimensions handed to _scale_to_fit on its own
MaxDim == 14           \* target dimensions handed to _scale_to_fit on its own
PlaceDim == 4          \* pixel dimensions explored under every scaling mode
OffsetDim == 3         \* pixel dimensions explored under every alignment
MaxInitCalls == 2      \* init_pdfium_library calls followed per thread
MaxPayload == 3        \* payload bytes written to the temporary file

(***************************************************************************)
(* Program constants.                                                      *)
(***************************************************************************)
CHUNK_SIZE == 65536

(***************************************************************************)
(* Strings are sequences of one-character strings; NULL is a pointer that  *)
(* is no string.                                                           *)
(***************************************************************************)
NULL == << "<null>" >>

isspace(c) == c = " "

isdigit(c) == c \in {"0", "1", "2", "3", "4", "5", "6", "7", "8", "9"}

DigitValue(c) ==
    CASE c = "0" -> 0 [] c = "1" -> 1 [] c = "2" -> 2 [] c = "3" -> 3
      [] c = "4" -> 4 [] c = "5" -> 5 [] c = "6" -> 6 [] c = "7" -> 7
      [] c = "8" -> 8 [] c = "9" -> 9

Min(a, b) == IF a < b THEN a ELSE b

\* Index of the first position >= i of s that holds no white space;
\* Len(s) + 1 when there is none.
RECURSIVE SkipSpaces(_, _)
SkipSpaces(s, i) ==
    IF i <= Len(s) /\ isspace(s[i]) THEN SkipSpaces(s, i + 1) ELSE i

\* The value of the decimal digits of s that start at position i.
RECURSIVE Digits(_, _, _)
Digits(s, i, acc) ==
    IF i <= Len(s) /\ isdigit(s[i])
    THEN Digits(s, i + 1, 10 * acc + DigitValue(s[i]))
    ELSE acc

\* C atoi: leading white space, an optional sign, then digits up to the first
\* character that is no digit; 0 when there are no digits.
atoi(s) ==
    LET i == SkipSpaces(s, 1)
        neg == i <= Len(s) /\ s[i] = "-"
        signed == i <= Len(s) /\ s[i] \in {"-", "+"}
        v == Digits(s, IF signed THEN i + 1 ELSE i, 0)
    IN  IF neg THEN 0 - v ELSE v

\* strtok(str, ","): the maximal non-empty runs of characters other than ','.
RECURSIVE strtok(_, _, _)
strtok(s, i, cur) ==
    IF i > Len(s)
    THEN IF cur = << >> THEN << >> ELSE << cur >>
    ELSE IF s[i] = ","
         THEN (IF cur = << >> THEN << >> ELSE << cur >>) \o strtok(s, i + 1, << >>)
         ELSE strtok(s, i + 1, Append(cur, s[i]))

\* The token with leading and trailing white space removed (lines 146-150).
RECURSIVE TrimRight(_)
TrimRight(t) ==
    IF Len(t) > 1 /\ isspace(t[Len(t)]) THEN TrimRight(SubSeq(t, 1, Len(t) - 1)) ELSE t

Trim(t) ==
    LET i == SkipSpaces(t, 1)
    IN  IF i > Len(t) THEN << >> ELSE TrimRight(SubSeq(t, i, Len(t)))

\* Position of the first '-' of t, 0 when there is none (strchr).
RECURSIVE strchr(_, _, _)
strchr(t, c, i) ==
    IF i > Len(t) THEN 0 ELSE IF t[i] = c THEN i ELSE strchr(t, c, i + 1)

\* start_page and end_page of one trimmed, non-empty token (lines 163-175).
TokenStart(t) ==
    LET dash == strchr(t, "-", 1)
    IN  IF dash > 0 THEN atoi(SubSeq(t, 1, dash - 1)) ELSE atoi(t)

\* Mutant: the end of a range is not read; the token counts as its first page.
TokenEnd_Start(t) == TokenStart(t)

TokenEnd(t) ==
    LET dash == strchr(t, "-", 1)
    IN  IF dash > 0 THEN atoi(SubSeq(t, dash + 1, Len(t))) ELSE atoi(t)

\* Mutant: the end of a range is not compared with the page count.
TokenInvalid_NoUpperLimit(t, total_pages) ==
    \/ total_pages <= 0
    \/ TokenStart(t) < 1
    \/ TokenEnd(t) < TokenStart(t)

\* The validation of one token (line 184).
TokenInvalid(t, total_pages) ==
    \/ total_pages <= 0
    \/ TokenStart(t) < 1
    \/ TokenEnd(t) < TokenStart(t)
    \/ TokenEnd(t) > total_pages

NoError == [fmt |-> "", token |-> << >>, n |-> 0]

Err(fmt, token, n) == [fmt |-> fmt, token |-> token, n |-> n]

\* Mutant: the pages of a token replace the mask instead of joining it.
MarkPages_Overwrite(flags, t, total_pages) ==
    [i \in 1..total_pages |-> TokenStart(t) <= i /\ i <= TokenEnd(t)]

\* The pages of one valid token are marked (lines 194-197).
MarkPages(flags, t, total_pages) ==
    [i \in 1..total_pages |-> flags[i] \/ (TokenStart(t) <= i /\ i <= TokenEnd(t))]

\* The token loop of parse_page_range (lines 143-205) from token k on:
\* [ok, flags, err], err being the message set by set_last_error or NoError.
RECURSIVE ParseTokens(_, _, _, _)
ParseTokens(toks, k, flags, total_pages) ==
    IF k > Len(toks)
    THEN [ok |-> TRUE, flags |-> flags, err |-> NoError]
    ELSE LET t == Trim(toks[k])
         IN  IF t = << >>
             THEN ParseTokens(toks, k + 1, flags, total_pages)
             ELSE IF TokenInvalid(t, total_pages)
                  THEN [ok |-> FALSE, flags |-> flags,
                        err |-> Err("Page range is invalid for a document with n pages",
                                    t, total_pages)]
                  ELSE ParseTokens(toks, k + 1, MarkPages(flags, t, total_pages),
                                   total_pages)

\* Mutant: a null or empty range string is parsed like any other.
parse_page_range_NoDefault(range_str, total_pages) ==
    ParseTokens(strtok(range_str, 1, << >>), 1,
                [i \in 1..total_pages |-> FALSE], total_pages)

\* parse_page_range (lines 114-208).  flags[i] is page_flags[i - 1].
parse_page_range(range_str, total_pages) ==
    IF range_str = NULL \/ range_str = << >>
    THEN [ok |-> TRUE, flags |-> [i \in 1..total_pages |-> TRUE], err |-> NoError]
    ELSE ParseTokens(strtok(range_str, 1, << >>), 1,
                     [i \in 1..total_pages |-> FALSE], total_pages)

(***************************************************************************)
(* Single-precision arithmetic.  _scale_to_fit computes with float (lines  *)
(* 891-911): a value is m * 2^e with 2^23 <= m < 2^24, or m = 0, and every *)
(* operation rounds its exact result to the nearest such value, ties to    *)
(* the even mantissa.  Only values >= 0 occur.                             *)
(***************************************************************************)
FLT_MANT_DIG == 24

Float(m, e) == [m |-> m, e |-> e]

\* The value with its mantissa brought up into [2^23, 2^24).
RECURSIVE Normal(_)
Normal(x) ==
    IF x.m = 0 THEN Float(0, 0)
    ELSE IF x.m >= 2^(FLT_MANT_DIG - 1) THEN x
    ELSE Normal(Float(2 * x.m, x.e - 1))

\* The same value with an odd mantissa.
RECURSIVE Odd(_)
Odd(x) ==
    IF x.m = 0 THEN Float(0, 0)
    ELSE IF x.m % 2 = 1 THEN x
    ELSE Odd(Float(x.m \div 2, x.e + 1))

\* (float)n for an int 0 <= n < 2^24: exact.
IntToFloat(n) == Normal(Float(n, 0))

\* The float q * 2^e, when the part cut off from q is r out of d: to
\* nearest, ties to even; a mantissa that reaches 2^24 is renormalised.
RoundEven(q, r, d, e) ==
    LET m == IF 2 * r > d \/ (2 * r = d /\ q % 2 = 1) THEN q + 1 ELSE q
    IN  IF m = 2^FLT_MANT_DIG THEN Float(2^(FLT_MANT_DIG - 1), e + 1)
        ELSE Float(m, e)

\* The first 24 significant bits of rem / d (rem < d), one bit per step.
RECURSIVE DivBits(_, _, _, _)
DivBits(rem, d, q, sh) ==
    IF q >= 2^(FLT_MANT_DIG - 1)
    THEN [q |-> q, rem |-> rem, sh |-> sh]
    ELSE LET bit == IF 2 * rem >= d THEN 1 ELSE 0
         IN  DivBits(2 * rem - bit * d, d, 2 * q + bit, sh + 1)

\* x / y in float, y # 0.
FDiv(x, y) ==
    IF x.m = 0 THEN Float(0, 0)
    ELSE LET b == DivBits(x.m % y.m, y.m, x.m \div y.m, 0)
         IN  RoundEven(b.q, b.rem, y.m, x.e - y.e - b.sh)

\* The number of low bits to cut from p to leave 24.
RECURSIVE Excess(_, _)
Excess(p, s) == IF p < 2^FLT_MANT_DIG THEN s ELSE Excess(p \div 2, s + 1)

\* x * y in float; one factor is a small integer or a short fraction, so
\* that the exact product of the odd mantissas stays below 2^31.
FMul(x, y) ==
    LET a == Odd(x)
        b == Odd(y)
        p == a.m * b.m
        s == Excess(p, 0)
    IN  IF p = 0 THEN Float(0, 0)
        ELSE IF s = 0 THEN Normal(Float(p, a.e + b.e))
        ELSE RoundEven(p \div 2^s, p % 2^s, 2^s, a.e + b.e + s)

\* x > y.
FGreater(x, y) ==
    /\ x.m # 0
    /\ \/ y.m = 0
       \/ x.e > y.e
       \/ x.e = y.e /\ x.m > y.m

\* (int)x: the fraction is cut off.
FloatToInt(x) ==
    IF x.m = 0 THEN 0
    ELSE IF x.e >= 0 THEN x.m * 2^x.e
    ELSE IF -x.e >= FLT_MANT_DIG THEN 0
    ELSE x.m \div 2^(-x.e)

(***************************************************************************)
(* _scale_to_fit (lines 889-913): the largest size of the source's aspect  *)
(* ratio that fits the target.                                             *)
(***************************************************************************)
\* page_aspect (lines 891-895).
page_aspect(src_width, src_height) ==
    IF src_height > 0
    THEN FDiv(IntToFloat(src_width), IntToFloat(src_height))
    ELSE IntToFloat(1)

\* The source is wider than the target: the width constrains (lines 896-902).
WidthConstrains(src_width, src_height, target_width, target_height) ==
    LET target_aspect ==
            IF target_height # 0
            THEN FDiv(IntToFloat(target_width), IntToFloat(target_height))
            ELSE IntToFloat(1)
    IN  FGreater(page_aspect(src_width, src_height), target_aspect)

scale_to_fit(src_width, src_height, target_width, target_height) ==
    IF WidthConstrains(src_width, src_height, target_width, target_height)
    THEN [width  |-> target_width,
          height |-> FloatToInt(FDiv(IntToFloat(target_width),
                                     page_aspect(src_width, src_height)))]
    ELSE [width  |-> FloatToInt(FMul(IntToFloat(target_height),
                                     page_aspect(src_width, src_height))),
          height |-> target_height]


\* The words the code compares option values and the alignment with.
Word ==
    [ landscape       |-> << "l", "a", "n", "d", "s", "c", "a", "p", "e" >>,
      monochrome      |-> << "m", "o", "n", "o", "c", "h", "r", "o", "m", "e" >>,
      draft           |-> << "d", "r", "a", "f", "t" >>,
      low             |-> << "l", "o", "w" >>,
      high            |-> << "h", "i", "g", "h" >>,
      true            |-> << "t", "r", "u", "e" >>,
      singleSided     |-> << "s", "i", "n", "g", "l", "e", "S", "i", "d", "e", "d" >>,
      duplexLongEdge  |-> << "d", "u", "p", "l", "e", "x", "L", "o", "n", "g", "E", "d", "g", "e" >>,
      duplexShortEdge |-> << "d", "u", "p", "l", "e", "x", "S", "h", "o", "r", "t", "E", "d", "g", "e" >>,
      left            |-> << "l", "e", "f", "t" >>,
      right           |-> << "r", "i", "g", "h", "t" >>,
      top             |-> << "t", "o", "p" >>,
      bottom          |-> << "b", "o", "t", "t", "o", "m" >> ]

(***************************************************************************)
(* parse_windows_options (lines 211-294): the print options of a job from  *)
(* its (key, value) pairs.  Keys are compared as a whole (strcmp); values  *)
(* are strings of characters.                                              *)
(***************************************************************************)
RECURSIVE Gcd(_, _)
Gcd(a, b) == IF b = 0 THEN a ELSE Gcd(b, a % b)

\* The double num / den, for the values atof reads exactly.
Ratio(num, den) ==
    IF num = 0 THEN [num |-> 0, den |-> 1]
    ELSE [num |-> num \div Gcd(num, den), den |-> den \div Gcd(num, den)]

\* Index of the first position >= i of s that holds no digit.
RECURSIVE SkipDigits(_, _)
SkipDigits(s, i) ==
    IF i <= Len(s) /\ isdigit(s[i]) THEN SkipDigits(s, i + 1) ELSE i

\* C atof on an unsigned decimal: leading white space, digits, an optional
\* point and more digits; 0.0 when the string does not start with a number.
atof(s) ==
    LET i == SkipSpaces(s, 1)
        dot == SkipDigits(s, i)
        point == dot <= Len(s) /\ s[dot] = "."
        end == IF point THEN SkipDigits(s, dot + 1) ELSE dot
        places == IF point THEN end - dot - 1 ELSE 0
        whole == Digits(s, i, 0)
        fraction == IF point THEN Digits(s, dot + 1, 0) ELSE 0
    IN  Ratio(whole * 10^places + fraction, 10^places)

\* The values set before the loop (lines 215-223).
DefaultOptions ==
    [ paper_size_id   |-> 0,
      paper_source_id |-> 0,
      orientation     |-> 0,
      color_mode      |-> 0,
      print_quality   |-> 0,
      media_type_id   |-> 0,
      custom_scale    |-> Ratio(1, 1),
      collate         |-> TRUE,
      duplex_mode     |-> 0 ]


\* The value of print-quality (lines 261-268).
QualityOf(value) ==
    IF value = Word.draft THEN -1
    ELSE IF value = Word.low THEN -2
    ELSE IF value = Word.high THEN -4
    ELSE -3

\* The value of duplex_mode after a duplex pair (lines 283-291).
DuplexOf(value, duplex_mode) ==
    IF value = Word.singleSided THEN 1
    ELSE IF value = Word.duplexLongEdge THEN 2
    ELSE IF value = Word.duplexShortEdge THEN 3
    ELSE duplex_mode

\* Mutant: a color-mode pair sets the quality whatever it was.
QualityForColor_Always(print_quality) == -3

\* print_quality after a color-mode pair (lines 255-258).
QualityForColor(print_quality) ==
    IF print_quality = 0 THEN -3 ELSE print_quality

\* One pass of the loop body (lines 227-292).
ApplyOption(o, key, value) ==
    IF key = "paper-size-id"
    THEN [o EXCEPT !.paper_size_id = atoi(value)]
    ELSE IF key = "paper-source-id"
    THEN [o EXCEPT !.paper_source_id = atoi(value)]
    ELSE IF key = "orientation"
    THEN [o EXCEPT !.orientation = IF value = Word.landscape THEN 2 ELSE 1]
    ELSE IF key = "color-mode"
    THEN [o EXCEPT !.color_mode = IF value = Word.monochrome THEN 1 ELSE 2,
                   !.print_quality = QualityForColor(o.print_quality)]
    ELSE IF key = "print-quality"
    THEN [o EXCEPT !.print_quality = QualityOf(value)]
    ELSE IF key = "media-type-id"
    THEN [o EXCEPT !.media_type_id = atoi(value)]
    ELSE IF key = "custom-scale-factor"
    THEN [o EXCEPT !.custom_scale = atof(value)]
    ELSE IF key = "collate"
    THEN [o EXCEPT !.collate = (value = Word.true)]
    ELSE IF key = "duplex"
    THEN [o EXCEPT !.duplex_mode = DuplexOf(value, o.duplex_mode)]
    ELSE o

\* Mutant: the loop stops after the first pair.
OptionsLoop_FirstOnly(pairs, k, o) ==
    IF pairs = << >> THEN o ELSE ApplyOption(o, pairs[1].key, pairs[1].value)

\* The loop from pair k on (lines 225-293).
RECURSIVE OptionsLoop(_, _, _)
OptionsLoop(pairs, k, o) ==
    IF k > Len(pairs) THEN o
    ELSE OptionsLoop(pairs, k + 1, ApplyOption(o, pairs[k].key, pairs[k].value))

parse_windows_options(pairs) == OptionsLoop(pairs, 1, DefaultOptions)


(***************************************************************************)
(* The alignment factors (lines 1026-1060), in halves: 0 is 0.0, 1 is 0.5  *)
(* and 2 is 1.0.                                                           *)
(***************************************************************************)
\* C tolower on one character.
tolower(c) ==
    LET upper == << "A", "B", "C", "D", "E", "F", "G", "H", "I", "J", "K", "L", "M" >> \o
                 << "N", "O", "P", "Q", "R", "S", "T", "U", "V", "W", "X", "Y", "Z" >>
        lower == << "a", "b", "c", "d", "e", "f", "g", "h", "i", "j", "k", "l", "m" >> \o
                 << "n", "o", "p", "q", "r", "s", "t", "u", "v", "w", "x", "y", "z" >>
    IN  IF \E k \in 1..Len(upper) : upper[k] = c
        THEN lower[CHOOSE k \in 1..Len(upper) : upper[k] = c]
        ELSE c

\* The copy of lines 1035-1038.
Lowered(s) == [k \in 1..Len(s) |-> tolower(s[k])]

\* strstr(s, t) # NULL.
strstr(s, t) ==
    \E k \in 1..(Len(s) - Len(t) + 1) : SubSeq(s, k, k + Len(t) - 1) = t


\* Mutant: "right" is looked for before "left".
AlignX_RightFirst(lowered) ==
    IF strstr(lowered, Word.right) THEN 2
    ELSE IF strstr(lowered, Word.left) THEN 0
    ELSE 1

\* align_x_factor for the lowered copy (lines 1040-1047).
AlignX(lowered) ==
    IF strstr(lowered, Word.left) THEN 0
    ELSE IF strstr(lowered, Word.right) THEN 2
    ELSE 1

\* align_y_factor for the lowered copy (lines 1049-1056).
AlignY(lowered) ==
    IF strstr(lowered, Word.top) THEN 0
    ELSE IF strstr(lowered, Word.bottom) THEN 2
    ELSE 1


(***************************************************************************)
(* The destination size of a page (lines 1132-1178).                       *)
(***************************************************************************)
\* Mutant: only the width is compared with the printable area.
PageExceeds_WidthOnly(page_width, page_height, area_width, area_height) ==
    page_width > area_width

\* The page is larger than the printable area (line 1148).
PageExceeds(page_width, page_height, area_width, area_height) ==
    page_width > area_width \/ page_height > area_height

\* dest_width and dest_height for the scaling mode; the page, the printable
\* area and the paper are [width, height] records.
DestSize(mode, page, area, paper, custom_scale) ==
    IF mode = 0
    THEN scale_to_fit(page.width, page.height, area.width, area.height)
    ELSE IF mode = 1
    THEN page
    ELSE IF mode = 2
    THEN IF PageExceeds(page.width, page.height, area.width, area.height)
         THEN scale_to_fit(page.width, page.height, area.width, area.height)
         ELSE page
    ELSE IF mode = 3
    THEN scale_to_fit(page.width, page.height, paper.width, paper.height)
    ELSE IF mode = 4
    THEN [width  |-> (page.width * custom_scale.num) \div custom_scale.den,
          height |-> (page.height * custom_scale.num) \div custom_scale.den]
    ELSE scale_to_fit(page.width, page.height, area.width, area.height)

(***************************************************************************)
(* The destination offset of a page (lines 1180-1193).                     *)
(***************************************************************************)
\* Mutant: the size of the rectangle is left out of the offset.
DestOffset_WithoutSize(container, dest, halves) ==
    FloatToInt(FMul(IntToFloat(container), Float(halves, -1)))

\* (int)((container - dest) * factor): the difference is converted to
\* float, multiplied by the factor (halves / 2) and cut off towards zero.
DestOffset(container, dest, halves) ==
    LET d == container - dest
        magnitude == FloatToInt(FMul(IntToFloat(IF d < 0 THEN -d ELSE d),
                                     Float(halves, -1)))
    IN  IF d < 0 THEN -magnitude ELSE magnitude

(***************************************************************************)
(* State.                                                                  *)
(***************************************************************************)
VARIABLES
    op,                    \* the public operation being executed, "" when none
    pc,                    \* position in the operation's code
    calls,                 \* the collaborator calls made so far by the operation
    length,                \* raw path: the payload length
    page_range,            \* PDF path: the page-range string
    pDevMode,              \* what get_modified_devmode returned: "NULL" or "set"
    job_id,                \* the identifier StartDocPrinterW / StartDocW gave
    total_written,         \* raw path: bytes transferred so far
    write_success,         \* raw path: no WritePrinter call failed
    page_count,            \* PDF path: FPDF_GetPageCount
    pages_to_print,        \* PDF path: the mask filled by parse_page_range
    i,                     \* PDF path: the page loop's index (0-based)
    success,               \* PDF path: no page operation failed
    result,                \* the value returned (bool as 0/1), valid at pc = "done"
    g_last_error_message,  \* the calling thread's last-error slot
    last_error_calls,      \* the messages set_last_error stored during this call
    tls,                   \* every thread's instance of g_last_error_message
    tpc,                   \* every thread's position inside set_last_error
    error_log,             \* the set_last_error and get_last_error calls of all threads
    range_tokens,          \* the tokens a page-range string was written from
    option_list,           \* the (key, value) pairs given to parse_windows_options
    print_options,         \* the out-parameters of parse_windows_options
    pdf_pixel_width,       \* page loop: the page's width in device pixels
    pdf_pixel_height,      \* page loop: the page's height in device pixels
    printable_width_pixels,  \* page loop: GetDeviceCaps(hdc, HORZRES)
    printable_height_pixels, \* page loop: GetDeviceCaps(hdc, VERTRES)
    paper_width,           \* page loop: GetDeviceCaps(hdc, PHYSICALWIDTH)
    paper_height,          \* page loop: GetDeviceCaps(hdc, PHYSICALHEIGHT)
    scaling_mode,          \* the scaling_mode argument of the PDF job
    dest_width,            \* page loop: width of the destination rectangle
    dest_height,           \* page loop: height of the destination rectangle
    offset_x,              \* page loop: GetDeviceCaps(hdc, PHYSICALOFFSETX)
    offset_y,              \* page loop: GetDeviceCaps(hdc, PHYSICALOFFSETY)
    dest_x,                \* page loop: left edge of the destination rectangle
    dest_y,                \* page loop: top edge of the destination rectangle
    alignment,             \* the alignment argument of the PDF job
    alignment_lower,       \* the lowered copy strdup made of it, or NULL
    align_x_factor,        \* horizontal alignment factor, in halves (0, 1, 2)
    align_y_factor,        \* vertical alignment factor, in halves (0, 1, 2)
    s_pdfium_library_initialized,  \* the static flag of line 26
    fpdf_init_calls,       \* how often FPDF_InitLibraryWithConfig was called
    ipc                    \* every thread's position inside init_pdfium_library

vars == << op, pc, calls, length, page_range, pDevMode, job_id, total_written,
           write_success, page_count, pages_to_print, i, success, result,
           g_last_error_message, last_error_calls, tls, tpc, error_log,
           range_tokens, option_list, print_options, pdf_pixel_width,
           pdf_pixel_height, printable_width_pixels, printable_height_pixels,
           paper_width, paper_height, scaling_mode, dest_width, dest_height,
           offset_x, offset_y, dest_x, dest_y,
           alignment, alignment_lower, align_x_factor, align_y_factor,
           s_pdfium_library_initialized, fpdf_init_calls, ipc >>

\* The state of the option normalizer and of the page placement.
unit_vars == << option_list, print_options, pdf_pixel_width, pdf_pixel_height,
                printable_width_pixels, printable_height_pixels, paper_width,
                paper_height, scaling_mode, dest_width, dest_height,
                offset_x, offset_y, dest_x, dest_y,
                alignment, alignment_lower, align_x_factor, align_y_factor >>

\* The state of one print job.
job_vars == << op, pc, calls, length, page_range, pDevMode, job_id,
               total_written, write_success, page_count, pages_to_print, i,
               success, result, g_last_error_message, last_error_calls,
               range_tokens >>

\* The state of the PDF library's initialisation.
lib_vars == << s_pdfium_library_initialized, fpdf_init_calls, ipc >>

\* The state of the threads that only use the error slot.
thread_vars == << tls, tpc, error_log >>

\* The threads that call into the library concurrently.
Threads == {"T1", "T2"}

\* g_last_error_message = NULL (lines 35, 37, 47).
NullMessage == Err("<null>", << >>, 0)

\* A thread that is not inside set_last_error.
IdleThread == [at |-> "idle", msg |-> NullMessage]

RawOps == {"raw_data_to_printer", "submit_raw_data_job"}

PdfOps == {"print_pdf", "submit_pdf_job"}

\* Payload lengths offered to the raw operations (0 is rejected by validation).
Lengths == {0, 1, CHUNK_SIZE + 1}

\* Page-range strings offered to the PDF operations.
RangeSamples ==
    { NULL,
      << >>,
      << "1" >>,
      << "2" >>,
      << "2", ",", "4", "-", "5" >>,
      << "3", ",", "1" >>,
      << "1", "-", "2", ",", " ", "2", "-", "3" >>,
      << "2", "-", "1" >>,
      << "0" >>,
      << "1", ",", "9" >>,
      << ",", " ", "," >> }

(***************************************************************************)
(* The trace of collaborator calls.                                        *)
(***************************************************************************)
\* One call: the API function, its result as the code sees it, and its
\* arguments (the page index, or the offset / requested / transferred bytes).
Call(fn, ok, page, off, req, got) ==
    [fn |-> fn, ok |-> ok, page |-> page, off |-> off, req |-> req, got |-> got]

Dev(fn, ok) == Call(fn, ok, -1, 0, 0, 0)

PageCall(fn, ok, page) == Call(fn, ok, page, 0, 0, 0)

\* The role a call plays in the session protocol of the printer resource
\* (the printer handle of the raw path, the device context of the PDF path).
Kind(fn) ==
    CASE fn \in {"OpenPrinterW", "CreateDCW"} -> "Open"
      [] fn \in {"StartDocPrinterW", "StartDocW"} -> "StartDocument"
      [] fn \in {"StartPagePrinter", "StartPage"} -> "StartPage"
      [] fn = "WritePrinter" -> "Write"
      [] fn = "FPDF_RenderPage" -> "Render"
      [] fn = "GetDeviceCaps" -> "Query"
      [] fn \in {"EndPagePrinter", "EndPage"} -> "EndPage"
      [] fn \in {"EndDocPrinter", "EndDoc"} -> "EndDocument"
      [] fn = "AbortDoc" -> "Abort"
      [] fn \in {"ClosePrinter", "DeleteDC"} -> "Close"
      [] OTHER -> "Other"

IsDeviceCall(c) == Kind(c.fn) # "Other"

\* The calls made on the session's printer resource, in order.
DevCalls == SelectSeq(calls, IsDeviceCall)

NumCalls(fn) == Cardinality({k \in 1..Len(calls) : calls[k].fn = fn})

NumKind(kind) == Cardinality({k \in 1..Len(calls) : Kind(calls[k].fn) = kind})

\* No option list was normalized and no page was placed.
InitUnits ==
    /\ option_list = << >>
    /\ print_options = DefaultOptions
    /\ pdf_pixel_width = 0
    /\ pdf_pixel_height = 0
    /\ printable_width_pixels = 0
    /\ printable_height_pixels = 0
    /\ paper_width = 0
    /\ paper_height = 0
    /\ scaling_mode = 0
    /\ dest_width = 0
    /\ dest_height = 0
    /\ offset_x = 0
    /\ offset_y = 0
    /\ dest_x = 0
    /\ dest_y = 0
    /\ alignment = NULL
    /\ alignment_lower = NULL
    /\ align_x_factor = 1
    /\ align_y_factor = 1

\* The threads that call init_pdfium_library.
LibraryThreads == Threads \cup {"T3"}

\* static bool s_pdfium_library_initialized = false (line 26).
InitLibrary ==
    /\ s_pdfium_library_initialized = FALSE
    /\ fpdf_init_calls = 0
    /\ ipc = [t \in LibraryThreads |-> [at |-> "idle", calls |-> 0]]

Init ==
    /\ op = ""
    /\ pc = "idle"
    /\ calls = << >>
    /\ length = 0
    /\ page_range = NULL
    /\ pDevMode = "NULL"
    /\ job_id = 0
    /\ total_written = 0
    /\ write_success = TRUE
    /\ page_count = 0
    /\ pages_to_print = << >>
    /\ i = 0
    /\ success = TRUE
    /\ result = 0
    /\ g_last_error_message = NoError
    /\ last_error_calls = << >>
    /\ tls = [t \in Threads |-> NullMessage]
    /\ tpc = [t \in Threads |-> IdleThread]
    /\ error_log = << >>
    /\ range_tokens = << >>
    /\ InitUnits
    /\ InitLibrary

\* return v: the operation ends with value v after making the calls cs.
Return(cs, v) ==
    /\ calls' = calls \o cs
    /\ result' = v
    /\ pc' = "done"

\* set_last_error (lines 41-66): overwrites the calling thread's slot.
set_last_error(e) ==
    /\ g_last_error_message' = e
    /\ last_error_calls' = Append(last_error_calls, e)

(***************************************************************************)
(* The raw path: raw_data_to_printer (lines 717-826) and                   *)
(* submit_raw_data_job (lines 2034-2145).  The two functions hold the same *)
(* statements up to the value they return; `op` says which one runs.       *)
(***************************************************************************)
\* What the two raw functions return when they give up early and when the
\* transfer ended: false / true for raw_data_to_printer, 0 / job_id for
\* submit_raw_data_job.
RawFailure(o) == 0

raw_data_to_printer_result(ws, written, len) ==
    IF ws /\ written = len THEN 1 ELSE 0

\* Mutant: the identifier is kept back when the transfer failed.
submit_raw_data_job_result_ZeroOnFailure(ws, written, len, id) ==
    IF ws /\ written = len THEN id ELSE 0

\* Mutant: the identifier is never handed out.
submit_raw_data_job_result_Zero(ws, written, len, id) == 0

submit_raw_data_job_result(ws, written, len, id) == id

RawResult(o, ws, written, len, id) ==
    IF o = "raw_data_to_printer"
    THEN raw_data_to_printer_result(ws, written, len)
    ELSE submit_raw_data_job_result(ws, written, len, id)

\* Mutant: an empty payload passes the validation.
RawInputsValid_AllowEmpty(pointers_ok, len) == pointers_ok

\* The input validation of both raw functions (lines 722-726, 2039-2043).
RawInputsValid(pointers_ok, len) == pointers_ok /\ ~(len <= 0)

raw_Enter(o, pointers_ok, len) ==
    /\ pc = "idle"
    /\ op' = o
    /\ length' = len
    /\ calls' = << >>
    /\ IF RawInputsValid(pointers_ok, len)
       THEN pc' = "raw_prepare" /\ UNCHANGED result
       ELSE pc' = "done" /\ result' = RawFailure(o)
    /\ UNCHANGED << page_range, pDevMode, job_id, total_written, write_success,
                    page_count, pages_to_print, i, success, g_last_error_message, last_error_calls >>
    /\ UNCHANGED << thread_vars, range_tokens, unit_vars, lib_vars >>

\* to_utf16(printer_name) and get_modified_devmode (lines 734-743).
raw_Prepare(utf16_ok, devmode) ==
    /\ pc = "raw_prepare"
    /\ IF utf16_ok
       THEN /\ pc' = "raw_open"
            /\ pDevMode' = devmode
            /\ UNCHANGED << calls, result >>
       ELSE /\ Return(<< >>, RawFailure(op))
            /\ UNCHANGED pDevMode
    /\ UNCHANGED << op, length, page_range, job_id, total_written, write_success,
                    page_count, pages_to_print, i, success, g_last_error_message, last_error_calls >>
    /\ UNCHANGED << thread_vars, range_tokens, unit_vars, lib_vars >>

\* OpenPrinterW (lines 745-752).
raw_OpenPrinterW(ok) ==
    /\ pc = "raw_open"
    /\ IF ok
       THEN /\ calls' = Append(calls, Dev("OpenPrinterW", TRUE))
            /\ pc' = "raw_startdoc"
            /\ UNCHANGED result
       ELSE Return(<< Dev("OpenPrinterW", FALSE) >>, RawFailure(op))
    /\ UNCHANGED << op, length, page_range, pDevMode, job_id, total_written,
                    write_success, page_count, pages_to_print, i, success,
                    g_last_error_message, last_error_calls >>
    /\ UNCHANGED << thread_vars, range_tokens, unit_vars, lib_vars >>

\* Mutant: the handle is not closed when StartDocPrinterW fails.
RawStartDocFailed_NoClose == << Dev("StartDocPrinterW", FALSE) >>

\* The calls made when StartDocPrinterW fails (lines 759-769).
RawStartDocFailed == << Dev("StartDocPrinterW", FALSE), Dev("ClosePrinter", TRUE) >>

\* StartDocPrinterW (lines 759-771); id = 0 is its failure.
raw_StartDocPrinterW(id) ==
    /\ pc = "raw_startdoc"
    /\ IF id = 0
       THEN /\ Return(RawStartDocFailed, RawFailure(op))
            /\ UNCHANGED job_id
       ELSE /\ calls' = Append(calls, Dev("StartDocPrinterW", TRUE))
            /\ job_id' = id
            /\ pc' = "raw_startpage"
            /\ UNCHANGED result
    /\ UNCHANGED << op, length, page_range, pDevMode, total_written, write_success,
                    page_count, pages_to_print, i, success, g_last_error_message, last_error_calls >>
    /\ UNCHANGED << thread_vars, range_tokens, unit_vars, lib_vars >>

\* Mutant: the document is not ended when StartPagePrinter fails.
RawStartPageFailed_NoEndDoc ==
    << Dev("StartPagePrinter", FALSE), Dev("ClosePrinter", TRUE) >>

\* The calls made when StartPagePrinter fails (lines 773-782).
RawStartPageFailed ==
    << Dev("StartPagePrinter", FALSE), Dev("EndDocPrinter", TRUE),
       Dev("ClosePrinter", TRUE) >>

\* StartPagePrinter (lines 773-782) and the loop's initialisation (786-789).
raw_StartPagePrinter(ok) ==
    /\ pc = "raw_startpage"
    /\ IF ok
       THEN /\ calls' = Append(calls, Dev("StartPagePrinter", TRUE))
            /\ total_written' = 0
            /\ write_success' = TRUE
            /\ pc' = "raw_write"
            /\ UNCHANGED result
       ELSE /\ Return(RawStartPageFailed, RawFailure(op))
            /\ UNCHANGED << total_written, write_success >>
    /\ UNCHANGED << op, length, page_range, pDevMode, job_id, page_count,
                    pages_to_print, i, success, g_last_error_message, last_error_calls >>
    /\ UNCHANGED << thread_vars, range_tokens, unit_vars, lib_vars >>

\* Mutant: the payload is handed over in one piece.
chunk_to_write_Whole(bytes_to_write, written) == bytes_to_write - written

\* Mutant: the chunk size is taken from the length, not from what is left.
chunk_to_write_FromLength(bytes_to_write, written) ==
    IF bytes_to_write > CHUNK_SIZE THEN CHUNK_SIZE ELSE bytes_to_write - written

\* chunk_to_write (line 793).
chunk_to_write(bytes_to_write, written) ==
    IF bytes_to_write - written > CHUNK_SIZE THEN CHUNK_SIZE ELSE bytes_to_write - written

\* Mutant: the loop goes on after a failed chunk.
RawLoopRuns_IgnoreFailure(ws, written, bytes_to_write) == written < bytes_to_write

\* The loop condition of the chunked write (line 791), after a break or not.
RawLoopRuns(ws, written, bytes_to_write) == ws /\ written < bytes_to_write

\* The byte counts WritePrinter may report for a request of req bytes.
WrittenChoices(req) == {0, req - 1, req} \cap (0..req)

\* One iteration of the chunked write (lines 791-812): WritePrinter, then the
\* message pump when it succeeded.
raw_WritePrinter(ok, got) ==
    /\ pc = "raw_write"
    /\ RawLoopRuns(write_success, total_written, length)
    /\ NumCalls("WritePrinter") < MaxWrites
    /\ LET req == chunk_to_write(length, total_written)
       IN  /\ got \in WrittenChoices(req)
           /\ IF ok
              THEN /\ calls' = calls \o
                        << Call("WritePrinter", TRUE, -1, total_written, req, got),
                           Dev("PeekMessageW", TRUE) >>
                   /\ total_written' = total_written + got
                   /\ UNCHANGED write_success
              ELSE /\ got = 0
                   /\ calls' = Append(calls,
                        Call("WritePrinter", FALSE, -1, total_written, req, 0))
                   /\ write_success' = FALSE
                   /\ UNCHANGED total_written
    /\ UNCHANGED << op, pc, length, page_range, pDevMode, job_id, page_count,
                    pages_to_print, i, success, result, g_last_error_message, last_error_calls >>
    /\ UNCHANGED << thread_vars, range_tokens, unit_vars, lib_vars >>

\* Mutant: the document is ended before the page.
RawEnd_DocBeforePage(endpage_ok) ==
    << Dev("EndDocPrinter", TRUE), Dev("EndPagePrinter", endpage_ok),
       Dev("ClosePrinter", TRUE) >>

\* The calls that end the raw session after the loop (lines 814-816); the
\* result of EndPagePrinter is not looked at.
RawEnd(endpage_ok) ==
    << Dev("EndPagePrinter", endpage_ok), Dev("EndDocPrinter", TRUE),
       Dev("ClosePrinter", TRUE) >>

\* After the loop (lines 814-826, 2133-2145).
raw_Finish(endpage_ok) ==
    /\ pc = "raw_write"
    /\ ~RawLoopRuns(write_success, total_written, length)
    /\ Return(RawEnd(endpage_ok),
              RawResult(op, write_success, total_written, length, job_id))
    /\ UNCHANGED << op, length, page_range, pDevMode, job_id, total_written,
                    write_success, page_count, pages_to_print, i, success,
                    g_last_error_message, last_error_calls >>
    /\ UNCHANGED << thread_vars, range_tokens, unit_vars, lib_vars >>

(***************************************************************************)
(* The PDF path: print_pdf (lines 1248-1260), submit_pdf_job (lines        *)
(* 2205-2217) and _print_pdf_job_win (lines 919-1240), which both call:    *)
(* print_pdf with submit_job = false, submit_pdf_job with submit_job =     *)
(* true.                                                                   *)
(***************************************************************************)
submit_job(o) == o = "submit_pdf_job"

\* The input validation of print_pdf and submit_pdf_job (lines 1253, 2210).
PdfInputsValid(pointers_ok, copies) == pointers_ok /\ ~(copies <= 0)

\* print_pdf compares the helper's value with 1 (line 1260); submit_pdf_job
\* hands it on (line 2217).
PdfReturn(o, v) == IF submit_job(o) THEN v ELSE (IF v = 1 THEN 1 ELSE 0)

\* The value _print_pdf_job_win returns after the page loop (lines 1230-1239).
print_pdf_job_win_result(sj, ok, id) ==
    IF sj THEN (IF ok THEN id ELSE 0) ELSE (IF ok THEN 1 ELSE 0)

pdf_Enter(o, pointers_ok, copies, range) ==
    /\ pc = "idle"
    /\ op' = o
    /\ page_range' = range
    /\ calls' = << >>
    /\ IF PdfInputsValid(pointers_ok, copies)
       THEN pc' = "pdf_begin" /\ UNCHANGED result
       ELSE pc' = "done" /\ result' = 0
    /\ UNCHANGED << length, pDevMode, job_id, total_written, write_success,
                    page_count, pages_to_print, i, success, g_last_error_message, last_error_calls >>
    /\ UNCHANGED << thread_vars, range_tokens, unit_vars, lib_vars >>

\* set_last_error(""), parse_windows_options, to_utf16 (lines 921-934).
pdf_Begin(utf16_ok) ==
    /\ pc = "pdf_begin"
    /\ IF utf16_ok
       THEN /\ set_last_error(NoError)
            /\ pc' = "pdf_load"
            /\ UNCHANGED << calls, result >>
       ELSE /\ set_last_error(Err("Failed to convert printer name to UTF-16", << >>, 0))
            /\ Return(<< >>, PdfReturn(op, 0))
    /\ UNCHANGED << op, length, page_range, pDevMode, job_id, total_written,
                    write_success, page_count, pages_to_print, i, success >>
    /\ UNCHANGED << thread_vars, range_tokens, unit_vars, lib_vars >>

\* FPDF_LoadDocument (lines 936-944).
pdf_LoadDocument(ok) ==
    /\ pc = "pdf_load"
    /\ IF ok
       THEN /\ calls' = Append(calls, Dev("FPDF_LoadDocument", TRUE))
            /\ pc' = "pdf_open"
            /\ UNCHANGED << result, g_last_error_message, last_error_calls >>
       ELSE /\ set_last_error(Err("Failed to load PDF document", << >>, 0))
            /\ Return(<< Dev("FPDF_LoadDocument", FALSE) >>, PdfReturn(op, 0))
    /\ UNCHANGED << op, length, page_range, pDevMode, job_id, total_written,
                    write_success, page_count, pages_to_print, i, success >>
    /\ UNCHANGED << thread_vars, range_tokens, unit_vars, lib_vars >>

\* Mutant: the device context that was not created is deleted.
PdfOpenFailed_DeleteDC ==
    << Dev("CreateDCW", FALSE), Dev("DeleteDC", TRUE), Dev("FPDF_CloseDocument", TRUE) >>

\* The calls made when CreateDCW fails (lines 952-959).
PdfOpenFailed == << Dev("CreateDCW", FALSE), Dev("FPDF_CloseDocument", TRUE) >>

\* get_modified_devmode and CreateDCW (lines 946-959).
pdf_CreateDCW(devmode, ok) ==
    /\ pc = "pdf_open"
    /\ pDevMode' = devmode
    /\ IF ok
       THEN /\ calls' = Append(calls, Dev("CreateDCW", TRUE))
            /\ pc' = "pdf_startdoc"
            /\ UNCHANGED << result, g_last_error_message, last_error_calls >>
       ELSE /\ set_last_error(Err("Failed to create device context (CreateDCW)", << >>, 0))
            /\ Return(PdfOpenFailed, PdfReturn(op, 0))
    /\ UNCHANGED << op, length, page_range, job_id, total_written, write_success,
                    page_count, pages_to_print, i, success >>
    /\ UNCHANGED << thread_vars, range_tokens, unit_vars, lib_vars >>

\* Mutant: the document that did not start is aborted.
PdfStartDocFailed_Abort ==
    << Dev("StartDocW", FALSE), Dev("AbortDoc", TRUE), Dev("DeleteDC", TRUE),
       Dev("FPDF_CloseDocument", TRUE) >>

\* The calls made when StartDocW fails (lines 965-975).
PdfStartDocFailed ==
    << Dev("StartDocW", FALSE), Dev("DeleteDC", TRUE), Dev("FPDF_CloseDocument", TRUE) >>

\* StartDocW (lines 961-977); id <= 0 is its failure.
pdf_StartDocW(id) ==
    /\ pc = "pdf_startdoc"
    /\ job_id' = id
    /\ IF id <= 0
       THEN /\ set_last_error(Err("Failed to start print document (StartDocW)", << >>, 0))
            /\ Return(PdfStartDocFailed, PdfReturn(op, 0))
       ELSE /\ calls' = Append(calls, Dev("StartDocW", TRUE))
            /\ pc' = "pdf_pagecount"
            /\ UNCHANGED << result, g_last_error_message, last_error_calls >>
    /\ UNCHANGED << op, length, page_range, pDevMode, total_written, write_success,
                    page_count, pages_to_print, i, success >>
    /\ UNCHANGED << thread_vars, range_tokens, unit_vars, lib_vars >>

\* Mutant: the exits before the page loop leave the document loaded.
PdfGiveUp_LeakDocument == << Dev("AbortDoc", TRUE), Dev("DeleteDC", TRUE) >>

\* The calls of the exits taken between StartDocW and the page loop (lines
\* 984-991, 1000-1006, 1015-1022).
PdfGiveUp == << Dev("AbortDoc", TRUE), Dev("DeleteDC", TRUE), Dev("FPDF_CloseDocument", TRUE) >>

\* FPDF_GetPageCount (lines 979-992).
pdf_GetPageCount(n) ==
    /\ pc = "pdf_pagecount"
    /\ page_count' = n
    /\ IF n <= 0
       THEN /\ set_last_error(Err("Could not get page count from the PDF document", << >>, n))
            /\ Return(<< Dev("FPDF_GetPageCount", FALSE) >> \o PdfGiveUp, PdfReturn(op, 0))
       ELSE /\ calls' = Append(calls, Dev("FPDF_GetPageCount", TRUE))
            /\ pc' = "pdf_alloc"
            /\ UNCHANGED << result, g_last_error_message, last_error_calls >>
    /\ UNCHANGED << op, length, page_range, pDevMode, job_id, total_written,
                    write_success, pages_to_print, i, success >>
    /\ UNCHANGED << thread_vars, range_tokens, unit_vars, lib_vars >>

\* malloc of pages_to_print (lines 995-1007).
pdf_AllocFlags(ok) ==
    /\ pc = "pdf_alloc"
    /\ IF ok
       THEN /\ pc' = "pdf_parse"
            /\ UNCHANGED << calls, result, g_last_error_message, last_error_calls >>
       ELSE /\ set_last_error(Err("Failed to allocate memory for page range flags", << >>, 0))
            /\ Return(PdfGiveUp, PdfReturn(op, 0))
    /\ UNCHANGED << op, length, page_range, pDevMode, job_id, total_written,
                    write_success, page_count, pages_to_print, i, success >>
    /\ UNCHANGED << thread_vars, range_tokens, unit_vars, lib_vars >>

\* parse_page_range and its failure exit (lines 1009-1024); then the page
\* loop's initialisation (lines 1062, 1067).
pdf_ParsePageRange ==
    /\ pc = "pdf_parse"
    /\ LET r == parse_page_range(page_range, page_count)
       IN  IF r.ok
           THEN /\ pages_to_print' = r.flags
                /\ success' = TRUE
                /\ i' = 0
                /\ pc' = "pdf_loop"
                /\ UNCHANGED << calls, result, g_last_error_message, last_error_calls >>
           ELSE /\ set_last_error(IF r.err = NoError
                                  THEN Err("Invalid page range format", page_range, 0)
                                  ELSE r.err)
                /\ Return(PdfGiveUp, PdfReturn(op, 0))
                /\ UNCHANGED << pages_to_print, success, i >>
    /\ UNCHANGED << op, length, page_range, pDevMode, job_id, total_written,
                    write_success, page_count >>
    /\ UNCHANGED << thread_vars, range_tokens, unit_vars, lib_vars >>

\* Mutant: the loop stops one page early.
PageLoopRuns_OffByOne(k, n, ok) == k < n - 1 /\ ok

\* The condition of the page loop (line 1067).
PageLoopRuns(k, n, ok) == k < n /\ ok

\* An excluded page (lines 1069-1072).
pdf_SkipPage ==
    /\ pc = "pdf_loop"
    /\ PageLoopRuns(i, page_count, success)
    /\ ~pages_to_print[i + 1]
    /\ i' = i + 1
    /\ UNCHANGED << op, pc, calls, length, page_range, pDevMode, job_id,
                    total_written, write_success, page_count, pages_to_print,
                    success, result, g_last_error_message, last_error_calls >>
    /\ UNCHANGED << thread_vars, range_tokens, unit_vars, lib_vars >>

PageOutcomes == {"load_failed", "startpage_failed", "endpage_failed", "printed"}

\* Mutant: the loop body does not drain the message queue.
PageCalls_NoDrain(k, outcome) ==
    CASE outcome = "load_failed" ->
           << PageCall("FPDF_LoadPage", FALSE, k) >>
      [] outcome = "startpage_failed" ->
           << PageCall("FPDF_LoadPage", TRUE, k), PageCall("StartPage", FALSE, k),
              PageCall("FPDF_ClosePage", TRUE, k) >>
      [] OTHER ->
           << PageCall("FPDF_LoadPage", TRUE, k), PageCall("StartPage", TRUE, k),
              PageCall("GetDeviceCaps", TRUE, k), PageCall("FPDF_RenderPage", TRUE, k),
              PageCall("FPDF_ClosePage", TRUE, k),
              PageCall("EndPage", outcome = "printed", k) >>

\* The calls the loop body makes for included page k (0-based) under each
\* outcome (lines 1078-1207).
PageCalls(k, outcome) ==
    << Dev("PeekMessageW", TRUE) >> \o
    ( CASE outcome = "load_failed" ->
             << PageCall("FPDF_LoadPage", FALSE, k) >>
        [] outcome = "startpage_failed" ->
             << PageCall("FPDF_LoadPage", TRUE, k), PageCall("StartPage", FALSE, k),
                PageCall("FPDF_ClosePage", TRUE, k) >>
        [] OTHER ->
             << PageCall("FPDF_LoadPage", TRUE, k), PageCall("StartPage", TRUE, k),
                PageCall("GetDeviceCaps", TRUE, k), PageCall("FPDF_RenderPage", TRUE, k),
                PageCall("FPDF_ClosePage", TRUE, k),
                PageCall("EndPage", outcome = "printed", k) >> )

\* The message set for a failed page (lines 1091, 1099, 1204).
PageError(k, outcome) ==
    CASE outcome = "load_failed" -> Err("Failed to load PDF page", << >>, k + 1)
      [] outcome = "startpage_failed" -> Err("Failed to start page", << >>, k + 1)
      [] outcome = "endpage_failed" -> Err("Failed to end page", << >>, k + 1)
      [] OTHER -> g_last_error_message

\* The loop index after the body: break leaves it, the end of the body is
\* followed by ++i (lines 1094, 1104, 1067).
PageNextIndex(k, outcome) ==
    IF outcome \in {"load_failed", "startpage_failed"} THEN k ELSE k + 1

\* An included page (lines 1073-1207).
pdf_PrintPage(outcome) ==
    /\ pc = "pdf_loop"
    /\ PageLoopRuns(i, page_count, success)
    /\ pages_to_print[i + 1]
    /\ calls' = calls \o PageCalls(i, outcome)
    /\ success' = (outcome = "printed")
    /\ IF outcome = "printed"
       THEN UNCHANGED << g_last_error_message, last_error_calls >>
       ELSE set_last_error(PageError(i, outcome))
    /\ i' = PageNextIndex(i, outcome)
    /\ UNCHANGED << op, pc, length, page_range, pDevMode, job_id, total_written,
                    write_success, page_count, pages_to_print, result >>
    /\ UNCHANGED << thread_vars, range_tokens, unit_vars, lib_vars >>

\* Mutant: the document is ended normally whatever happened.
PdfDocClose_AlwaysEnd(ok) == "EndDoc"

\* The call that closes the document after the loop (lines 1215-1224).
PdfDocClose(ok) == IF ok THEN "EndDoc" ELSE "AbortDoc"

\* The calls made after the page loop (lines 1215-1228).
PdfEnd(ok) ==
    << Dev(PdfDocClose(ok), TRUE), Dev("DeleteDC", TRUE), Dev("FPDF_CloseDocument", TRUE) >>

\* After the page loop (lines 1211-1239).
pdf_Finish ==
    /\ pc = "pdf_loop"
    /\ ~PageLoopRuns(i, page_count, success)
    /\ Return(PdfEnd(success),
              PdfReturn(op, print_pdf_job_win_result(submit_job(op), success, job_id)))
    /\ UNCHANGED << op, length, page_range, pDevMode, job_id, total_written,
                    write_success, page_count, pages_to_print, i, success,
                    g_last_error_message, last_error_calls >>
    /\ UNCHANGED << thread_vars, range_tokens, unit_vars, lib_vars >>

(***************************************************************************)
(* The job control operations pause_print_job (lines 1550-1582),           *)
(* resume_print_job (lines 1584-1616) and cancel_print_job (lines          *)
(* 1618-1650): validation, to_utf16, OpenPrinterW, SetJobW, ClosePrinter.  *)
(***************************************************************************)
JobControlOps == {"pause_print_job", "resume_print_job", "cancel_print_job"}

JobControlCalls(open_ok, set_ok) ==
    IF open_ok
    THEN << Dev("OpenPrinterW", TRUE), Dev("SetJobW", set_ok), Dev("ClosePrinter", TRUE) >>
    ELSE << Dev("OpenPrinterW", FALSE) >>

job_control(o, name_ok, utf16_ok, open_ok, set_ok) ==
    /\ pc = "idle"
    /\ op' = o
    /\ pc' = "done"
    /\ IF name_ok /\ utf16_ok
       THEN /\ calls' = JobControlCalls(open_ok, set_ok)
            /\ result' = IF open_ok /\ set_ok THEN 1 ELSE 0
       ELSE /\ calls' = << >>
            /\ result' = 0
    /\ UNCHANGED << length, page_range, pDevMode, job_id, total_written, write_success,
                    page_count, pages_to_print, i, success, g_last_error_message,
                    last_error_calls >>
    /\ UNCHANGED << thread_vars, range_tokens, unit_vars, lib_vars >>

(***************************************************************************)
(* The caller takes the result; the thread is free for its next call.  The *)
(* last-error slot is the only state that outlives the call.               *)
(***************************************************************************)
Returned ==
    /\ pc = "done"
    /\ op' = ""
    /\ pc' = "idle"
    /\ calls' = << >>
    /\ length' = 0
    /\ page_range' = NULL
    /\ pDevMode' = "NULL"
    /\ job_id' = 0
    /\ total_written' = 0
    /\ write_success' = TRUE
    /\ page_count' = 0
    /\ pages_to_print' = << >>
    /\ i' = 0
    /\ success' = TRUE
    /\ result' = 0
    /\ last_error_calls' = << >>
    /\ UNCHANGED g_last_error_message
    /\ UNCHANGED << thread_vars, range_tokens, unit_vars, lib_vars >>

Next ==
    \/ \E o \in RawOps, pointers_ok \in BOOLEAN, len \in Lengths :
          raw_Enter(o, pointers_ok, len)
    \/ \E utf16_ok \in BOOLEAN, devmode \in {"NULL", "set"} : raw_Prepare(utf16_ok, devmode)
    \/ \E ok \in BOOLEAN : raw_OpenPrinterW(ok)
    \/ \E id \in 0..MaxJobId : raw_StartDocPrinterW(id)
    \/ \E ok \in BOOLEAN : raw_StartPagePrinter(ok)
    \/ \E ok \in BOOLEAN :
          \E got \in WrittenChoices(chunk_to_write(length, total_written)) :
             raw_WritePrinter(ok, got)
    \/ \E endpage_ok \in BOOLEAN : raw_Finish(endpage_ok)
    \/ \E o \in PdfOps, pointers_ok \in BOOLEAN, copies \in {0, 1, 2}, range \in RangeSamples :
          pdf_Enter(o, pointers_ok, copies, range)
    \/ \E utf16_ok \in BOOLEAN : pdf_Begin(utf16_ok)
    \/ \E ok \in BOOLEAN : pdf_LoadDocument(ok)
    \/ \E devmode \in {"NULL", "set"}, ok \in BOOLEAN : pdf_CreateDCW(devmode, ok)
    \/ \E id \in -1..MaxJobId : pdf_StartDocW(id)
    \/ \E n \in 0..MaxPages : pdf_GetPageCount(n)
    \/ \E ok \in BOOLEAN : pdf_AllocFlags(ok)
    \/ pdf_ParsePageRange
    \/ pdf_SkipPage
    \/ \E outcome \in PageOutcomes : pdf_PrintPage(outcome)
    \/ pdf_Finish
    \/ \E o \in JobControlOps, name_ok \in BOOLEAN, utf16_ok \in BOOLEAN,
          open_ok \in BOOLEAN, set_ok \in BOOLEAN :
          job_control(o, name_ok, utf16_ok, open_ok, set_ok)
    \/ Returned

Spec == Init /\ [][Next]_vars

(***************************************************************************)
(* The raw path alone, with payloads around the chunk boundaries.          *)
(***************************************************************************)
RawLengths ==
    {0, 1, CHUNK_SIZE - 1, CHUNK_SIZE, CHUNK_SIZE + 1, 2 * CHUNK_SIZE, 200000,
     MaxWrites * CHUNK_SIZE}

NextRaw ==
    \/ \E o \in RawOps, pointers_ok \in BOOLEAN, len \in RawLengths :
          raw_Enter(o, pointers_ok, len)
    \/ \E utf16_ok \in BOOLEAN, devmode \in {"NULL", "set"} : raw_Prepare(utf16_ok, devmode)
    \/ \E ok \in BOOLEAN : raw_OpenPrinterW(ok)
    \/ \E id \in 0..MaxJobId : raw_StartDocPrinterW(id)
    \/ \E ok \in BOOLEAN : raw_StartPagePrinter(ok)
    \/ \E ok \in BOOLEAN :
          \E got \in WrittenChoices(chunk_to_write(length, total_written)) :
             raw_WritePrinter(ok, got)
    \/ \E endpage_ok \in BOOLEAN : raw_Finish(endpage_ok)
    \/ Returned

SpecRaw == Init /\ [][NextRaw]_vars

(***************************************************************************)
(* The raw path followed for as long as it runs.  The write loop is taken  *)
(* position by position, the write and then the message pump, and its      *)
(* calls are not added to the trace, so that a loop that goes round for    *)
(* ever is a cycle of states.  The thread is scheduled for as long as it    *)
(* has a step to take; nothing is assumed about what WritePrinter reports.  *)
(***************************************************************************)
\* WritePrinter and the update of total_written (lines 791-803).
raw_WriteChunk(ok, got) ==
    /\ pc = "raw_write"
    /\ RawLoopRuns(write_success, total_written, length)
    /\ IF ok
       THEN /\ total_written' = total_written + got
            /\ pc' = "raw_pump"
            /\ UNCHANGED write_success
       ELSE /\ write_success' = FALSE
            /\ UNCHANGED << total_written, pc >>
    /\ UNCHANGED << op, calls, length, page_range, pDevMode, job_id, page_count,
                    pages_to_print, i, success, result, g_last_error_message, last_error_calls >>
    /\ UNCHANGED << thread_vars, range_tokens, unit_vars, lib_vars >>

\* The message pump and the way back to the loop condition (lines 805-812).
raw_PumpMessages ==
    /\ pc = "raw_pump"
    /\ pc' = "raw_write"
    /\ UNCHANGED << op, calls, length, page_range, pDevMode, job_id, total_written,
                    write_success, page_count, pages_to_print, i, success, result,
                    g_last_error_message, last_error_calls >>
    /\ UNCHANGED << thread_vars, range_tokens, unit_vars, lib_vars >>

NextRawLoop ==
    \/ \E o \in RawOps, pointers_ok \in BOOLEAN, len \in RawLengths :
          raw_Enter(o, pointers_ok, len)
    \/ \E utf16_ok \in BOOLEAN, devmode \in {"NULL", "set"} : raw_Prepare(utf16_ok, devmode)
    \/ \E ok \in BOOLEAN : raw_OpenPrinterW(ok)
    \/ \E id \in 0..MaxJobId : raw_StartDocPrinterW(id)
    \/ \E ok \in BOOLEAN : raw_StartPagePrinter(ok)
    \/ \E ok \in BOOLEAN :
          \E got \in WrittenChoices(chunk_to_write(length, total_written)) :
             raw_WriteChunk(ok, got)
    \/ raw_PumpMessages
    \/ \E endpage_ok \in BOOLEAN : raw_Finish(endpage_ok)
    \/ Returned

SpecRawLoop == Init /\ [][NextRawLoop]_vars /\ WF_vars(NextRawLoop)

(***************************************************************************)
(* parse_page_range on its own: the range strings are written from token   *)
(* lists, valid and invalid, and the function is applied to each.          *)
(***************************************************************************)
DigitChar(d) ==
    CASE d = 0 -> "0" [] d = 1 -> "1" [] d = 2 -> "2" [] d = 3 -> "3"
      [] d = 4 -> "4" [] d = 5 -> "5" [] d = 6 -> "6" [] d = 7 -> "7"
      [] d = 8 -> "8" [] d = 9 -> "9"

\* The decimal text of n >= 0.
RECURSIVE NumStr(_)
NumStr(n) ==
    IF n < 10 THEN << DigitChar(n) >> ELSE NumStr(n \div 10) \o << DigitChar(n % 10) >>

\* A token names the pages a..b; it is written "a-b", or "a" when dash is
\* FALSE (and then a = b).  Offered are the tokens inside 1..n, the single
\* pages 0 and n + 1, the reversed ranges a-(a-1), and the ranges 0-1 and
\* 1-(n+1) that leave the document at one end.
Tokens(n) ==
    {t \in [a : 0..(n + 1), b : 0..(n + 1), dash : BOOLEAN] :
        /\ t.dash \/ t.a = t.b
        /\ \/ 1 <= t.a /\ t.a <= t.b /\ t.b <= n
           \/ t.a = t.b
           \/ t.b = t.a - 1
           \/ << t.a, t.b >> \in {<< 0, 1 >>, << 1, n + 1 >>}}

TokenText(t) ==
    IF t.dash THEN NumStr(t.a) \o << "-" >> \o NumStr(t.b) ELSE NumStr(t.a)

TokenLists(n) == UNION {[1..m -> Tokens(n)] : m \in 1..MaxTokens}

\* The range string of a token list: the tokens separated by commas, each
\* between blanks when pad is TRUE.
RECURSIVE Join(_, _)
Join(toks, pad) ==
    LET text == IF pad THEN << " " >> \o TokenText(toks[1]) \o << " " >>
                ELSE TokenText(toks[1])
    IN  IF Len(toks) = 1 THEN text ELSE text \o << "," >> \o Join(Tail(toks), pad)

\* The range strings written from a token list; the padded one is written
\* for the lists shorter than MaxTokens.
RangeTexts(toks) ==
    {Join(toks, pad) : pad \in IF Len(toks) < MaxTokens THEN BOOLEAN ELSE {FALSE}}

\* Range strings without a token.
NoTokenStrings == {NULL, << >>, << " " >>, << "," >>, << ",", " ", "," >>}

InitParse ==
    /\ op = "parse_page_range"
    /\ pc = "parse"
    /\ calls = << >>
    /\ length = 0
    /\ page_count \in 0..ParsePages
    /\ range_tokens \in TokenLists(page_count) \cup {<< >>}
    /\ page_range \in IF range_tokens = << >>
                       THEN NoTokenStrings
                       ELSE RangeTexts(range_tokens)
    /\ pDevMode = "NULL"
    /\ job_id = 0
    /\ total_written = 0
    /\ write_success = TRUE
    /\ pages_to_print = << >>
    /\ i = 0
    /\ success = TRUE
    /\ result = 0
    /\ g_last_error_message = NoError
    /\ last_error_calls = << >>
    /\ tls = [t \in Threads |-> NullMessage]
    /\ tpc = [t \in Threads |-> IdleThread]
    /\ error_log = << >>
    /\ InitUnits
    /\ InitLibrary

\* parse_page_range(page_range, page_flags, page_count) is called and
\* returns (lines 114-208).
parse_page_range_Call ==
    /\ pc = "parse"
    /\ LET r == parse_page_range(page_range, page_count)
       IN  /\ pages_to_print' = r.flags
           /\ success' = r.ok
           /\ result' = IF r.ok THEN 1 ELSE 0
           /\ IF r.err = NoError
              THEN UNCHANGED << g_last_error_message, last_error_calls >>
              ELSE set_last_error(r.err)
    /\ pc' = "parsed"
    /\ UNCHANGED << op, calls, length, page_range, pDevMode, job_id, total_written,
                    write_success, page_count, i >>
    /\ UNCHANGED << thread_vars, range_tokens, unit_vars, lib_vars >>

NextParse == parse_page_range_Call

SpecParse == InitParse /\ [][NextParse]_vars

(***************************************************************************)
(* The last-error slot under threads (lines 33-66, 1243-1246).  Each      *)
(* thread has its own instance of g_last_error_message; set_last_error     *)
(* frees the old message, then stores the new one; get_last_error reads    *)
(* the calling thread's instance.                                          *)
(***************************************************************************)
session_vars ==
    << op, pc, calls, length, page_range, pDevMode, job_id, total_written,
       write_success, page_count, pages_to_print, i, success, result,
       g_last_error_message, last_error_calls, range_tokens, unit_vars,
       lib_vars >>

\* The messages the threads set; the empty one is that of line 922.
ThreadMessages ==
    { NoError,
      Err("Failed to load PDF document", << >>, 0),
      Err("Failed to start page", << >>, 1) }

\* Mutant: the slot is one global variable shared by all threads.
SlotOf_Shared(t) == "T1"

\* The instance of g_last_error_message thread t works on (lines 35, 37).
SlotOf(t) == t

Event(t, kind, msg) == [thread |-> t, kind |-> kind, msg |-> msg]

\* get_last_error on thread t (line 1245).
get_last_error(t) == IF tls[SlotOf(t)] = NullMessage THEN NoError ELSE tls[SlotOf(t)]

\* set_last_error on thread t, first part: the old message is freed (lines
\* 43-48).
thread_set_last_error_Free(t, msg) ==
    /\ tpc[t].at = "idle"
    /\ Len(error_log) < MaxEvents
    /\ tls' = [tls EXCEPT ![SlotOf(t)] = NullMessage]
    /\ tpc' = [tpc EXCEPT ![t] = [at |-> "freed", msg |-> msg]]
    /\ UNCHANGED << error_log, session_vars >>

\* set_last_error on thread t, second part: the new message is allocated and
\* written (lines 58-63).
thread_set_last_error_Store(t) ==
    /\ tpc[t].at = "freed"
    /\ tls' = [tls EXCEPT ![SlotOf(t)] = tpc[t].msg]
    /\ tpc' = [tpc EXCEPT ![t] = IdleThread]
    /\ error_log' = Append(error_log, Event(t, "set", tpc[t].msg))
    /\ UNCHANGED session_vars

\* get_last_error on thread t (lines 1243-1246).
thread_get_last_error(t) ==
    /\ tpc[t].at = "idle"
    /\ Len(error_log) < MaxEvents
    /\ error_log' = Append(error_log, Event(t, "get", get_last_error(t)))
    /\ UNCHANGED << tls, tpc, session_vars >>

NextThreads ==
    \/ \E t \in Threads, msg \in ThreadMessages : thread_set_last_error_Free(t, msg)
    \/ \E t \in Threads : thread_set_last_error_Store(t)
    \/ \E t \in Threads : thread_get_last_error(t)

SpecThreads == Init /\ [][NextThreads]_vars

(***************************************************************************)
(* init_pdfium_library under threads (lines 26, 435-448).  The function is *)
(* exported and takes no lock: a thread tests the flag, calls              *)
(* FPDF_InitLibraryWithConfig and sets the flag in three steps, and the    *)
(* steps of two threads interleave.                                        *)
(***************************************************************************)
\* if (!s_pdfium_library_initialized) (line 438); the call returns at once
\* when the flag is set.
init_pdfium_library_Test(t) ==
    /\ ipc[t].at = "idle"
    /\ ipc[t].calls < MaxInitCalls
    /\ ipc' = [ipc EXCEPT ![t] = IF s_pdfium_library_initialized
                                 THEN [at |-> "idle", calls |-> ipc[t].calls + 1]
                                 ELSE [at |-> "config", calls |-> ipc[t].calls]]
    /\ UNCHANGED << s_pdfium_library_initialized, fpdf_init_calls >>
    /\ UNCHANGED << thread_vars, job_vars, unit_vars >>

\* FPDF_InitLibraryWithConfig(&config) (lines 440-443).
init_pdfium_library_Init(t) ==
    /\ ipc[t].at = "config"
    /\ fpdf_init_calls' = fpdf_init_calls + 1
    /\ ipc' = [ipc EXCEPT ![t] = [at |-> "initialized", calls |-> ipc[t].calls]]
    /\ UNCHANGED s_pdfium_library_initialized
    /\ UNCHANGED << thread_vars, job_vars, unit_vars >>

\* s_pdfium_library_initialized = true (line 444), and the call returns.
init_pdfium_library_Set(t) ==
    /\ ipc[t].at = "initialized"
    /\ s_pdfium_library_initialized' = TRUE
    /\ ipc' = [ipc EXCEPT ![t] = [at |-> "idle", calls |-> ipc[t].calls + 1]]
    /\ UNCHANGED fpdf_init_calls
    /\ UNCHANGED << thread_vars, job_vars, unit_vars >>

NextLibrary ==
    \E t \in LibraryThreads :
        \/ init_pdfium_library_Test(t)
        \/ init_pdfium_library_Init(t)
        \/ init_pdfium_library_Set(t)

SpecLibrary == Init /\ [][NextLibrary]_vars

(***************************************************************************)
(* parse_windows_options on its own (lines 211-294): the option list is    *)
(* drawn from the pairs below, then normalized.  The values offered for    *)
(* custom-scale-factor are binary fractions, which a double holds exactly. *)
(***************************************************************************)
\* A thread that calls operation o and stands at p, in a fresh process.
InitCall(o, p) ==
    /\ op = o
    /\ pc = p
    /\ calls = << >>
    /\ length = 0
    /\ page_range = NULL
    /\ pDevMode = "NULL"
    /\ job_id = 0
    /\ total_written = 0
    /\ write_success = TRUE
    /\ page_count = 0
    /\ pages_to_print = << >>
    /\ i = 0
    /\ success = TRUE
    /\ result = 0
    /\ g_last_error_message = NoError
    /\ last_error_calls = << >>
    /\ tls = [t \in Threads |-> NullMessage]
    /\ tpc = [t \in Threads |-> IdleThread]
    /\ error_log = << >>
    /\ range_tokens = << >>
    /\ InitLibrary

\* The pairs an option list is made of: every recognized key with recognized
\* and unrecognized values, and a key the code does not know.
OptionPairs ==
    UNION {
       (LET key == "paper-size-id"
        IN  { [key |-> key, value |-> v] : v \in
              { << "9" >>,
                << "a", "b", "c" >>,
                << "1", "2", "a", "b", "c" >> } }),
       (LET key == "paper-source-id"
        IN  { [key |-> key, value |-> v] : v \in
              { << "7" >>,
                << "x" >> } }),
       (LET key == "media-type-id"
        IN  { [key |-> key, value |-> v] : v \in
              { << "3" >>,
                << "x" >> } }),
       (LET key == "orientation"
        IN  { [key |-> key, value |-> v] : v \in
              { << "l", "a", "n", "d", "s", "c", "a", "p", "e" >>,
                << "p", "o", "r", "t", "r", "a", "i", "t" >> } }),
       (LET key == "color-mode"
        IN  { [key |-> key, value |-> v] : v \in
              { << "m", "o", "n", "o", "c", "h", "r", "o", "m", "e" >>,
                << "c", "o", "l", "o", "r" >> } }),
       (LET key == "print-quality"
        IN  { [key |-> key, value |-> v] : v \in
              { << "d", "r", "a", "f", "t" >>,
                << "l", "o", "w" >>,
                << "h", "i", "g", "h" >>,
                << "n", "o", "r", "m", "a", "l" >> } }),
       (LET key == "custom-scale-factor"
        IN  { [key |-> key, value |-> v] : v \in
              { << "1", ".", "5" >>,
                << "0", ".", "5" >>,
                << "a", "b", "c" >> } }),
       (LET key == "collate"
        IN  { [key |-> key, value |-> v] : v \in
              { << "t", "r", "u", "e" >>,
                << "f", "a", "l", "s", "e" >> } }),
       (LET key == "duplex"
        IN  { [key |-> key, value |-> v] : v \in
              { << "s", "i", "n", "g", "l", "e", "S", "i", "d", "e", "d" >>,
                << "d", "u", "p", "l", "e", "x", "L", "o", "n", "g", "E", "d", "g", "e" >>,
                << "d", "u", "p", "l", "e", "x", "S", "h", "o", "r", "t", "E", "d", "g", "e" >>,
                << "b", "o", "t", "h" >> } }),
       (LET key == "job-priority"
        IN  { [key |-> key, value |-> v] : v \in
              { << "5" >> } }) }

InitOptions ==
    /\ InitCall("parse_windows_options", "options")
    /\ option_list \in UNION { [1..n -> OptionPairs] : n \in 0..MaxOptions }
    /\ print_options = DefaultOptions
    /\ pdf_pixel_width = 0
    /\ pdf_pixel_height = 0
    /\ printable_width_pixels = 0
    /\ printable_height_pixels = 0
    /\ paper_width = 0
    /\ paper_height = 0
    /\ scaling_mode = 0
    /\ dest_width = 0
    /\ dest_height = 0
    /\ offset_x = 0
    /\ offset_y = 0
    /\ dest_x = 0
    /\ dest_y = 0
    /\ alignment = NULL
    /\ alignment_lower = NULL
    /\ align_x_factor = 1
    /\ align_y_factor = 1

\* parse_windows_options(num_options, option_keys, option_values, ...) is
\* called and returns (lines 211-294).
parse_windows_options_Call ==
    /\ pc = "options"
    /\ print_options' = parse_windows_options(option_list)
    /\ pc' = "normalized"
    /\ UNCHANGED << op, calls, length, page_range, pDevMode, job_id,
                    total_written, write_success, page_count, pages_to_print,
                    i, success, result, g_last_error_message,
                    last_error_calls, range_tokens >>
    /\ UNCHANGED << option_list, pdf_pixel_width, pdf_pixel_height,
                    printable_width_pixels, printable_height_pixels,
                    paper_width, paper_height, scaling_mode, dest_width,
                    dest_height, alignment, alignment_lower, align_x_factor,
                    align_y_factor >>
    /\ UNCHANGED << offset_x, offset_y, dest_x, dest_y, thread_vars, lib_vars >>

NextOptions == parse_windows_options_Call

SpecOptions == InitOptions /\ [][NextOptions]_vars

(***************************************************************************)
(* The placement of one page on its own (lines 1129-1178): the page's      *)
(* pixel size, the printable area and the paper are drawn, then the        *)
(* destination size is computed.  InitFit draws the sizes _scale_to_fit is *)
(* given under scaling mode 0; InitPlace draws smaller sizes under every   *)
(* scaling mode.                                                           *)
(***************************************************************************)
\* No option list was normalized and no alignment parsed.
NoOptions ==
    /\ option_list = << >>
    /\ alignment = NULL
    /\ alignment_lower = NULL
    /\ align_x_factor = 1
    /\ align_y_factor = 1
    /\ dest_width = 0
    /\ dest_height = 0
    /\ offset_x = 0
    /\ offset_y = 0
    /\ dest_x = 0
    /\ dest_y = 0

InitFit ==
    /\ InitCall("_print_pdf_job_win", "place")
    /\ NoOptions
    /\ print_options = DefaultOptions
    /\ scaling_mode = 0
    /\ pdf_pixel_width \in 1..MaxSrc
    /\ pdf_pixel_height \in 1..MaxSrc
    /\ printable_width_pixels \in 1..MaxDim
    /\ printable_height_pixels \in 1..MaxDim
    /\ paper_width = printable_width_pixels
    /\ paper_height = printable_height_pixels

\* The scaling modes: 0 fit printable area, 1 actual size, 2 shrink to fit,
\* 3 fit paper, 4 custom scale, 5 a mode the code does not know.
ScalingModes == 0..5

InitPlace ==
    /\ InitCall("_print_pdf_job_win", "place")
    /\ NoOptions
    /\ scaling_mode \in ScalingModes
    /\ print_options \in
           { [DefaultOptions EXCEPT !.custom_scale = c] :
               c \in IF scaling_mode = 4
                     THEN {Ratio(1, 2), Ratio(1, 1), Ratio(3, 2)}
                     ELSE {Ratio(1, 1)} }
    /\ pdf_pixel_width \in 1..PlaceDim
    /\ pdf_pixel_height \in 1..PlaceDim
    /\ printable_width_pixels \in 1..PlaceDim
    /\ printable_height_pixels \in 1..PlaceDim
    /\ \E margin \in IF scaling_mode = 3 THEN {0, 1} ELSE {0} :
           /\ paper_width = printable_width_pixels + 2 * margin
           /\ paper_height = printable_height_pixels + 2 * margin

\* The destination size of the page is computed (lines 1132-1178).
ComputeDestSize ==
    /\ pc = "place"
    /\ LET dest == DestSize(scaling_mode,
                            [width |-> pdf_pixel_width,
                             height |-> pdf_pixel_height],
                            [width |-> printable_width_pixels,
                             height |-> printable_height_pixels],
                            [width |-> paper_width, height |-> paper_height],
                            print_options.custom_scale)
       IN  /\ dest_width' = dest.width
           /\ dest_height' = dest.height
    /\ pc' = "placed"
    /\ UNCHANGED << op, calls, length, page_range, pDevMode, job_id,
                    total_written, write_success, page_count, pages_to_print,
                    i, success, result, g_last_error_message,
                    last_error_calls, range_tokens >>
    /\ UNCHANGED << option_list, print_options, pdf_pixel_width,
                    pdf_pixel_height, printable_width_pixels,
                    printable_height_pixels, paper_width, paper_height,
                    scaling_mode, alignment, alignment_lower, align_x_factor,
                    align_y_factor >>
    /\ UNCHANGED << offset_x, offset_y, dest_x, dest_y, thread_vars, lib_vars >>

\* The destination offset of the page is computed (lines 1180-1193): for
\* fit-to-paper on the physical paper, less the physical offset of the
\* printable area; in every other mode on the printable area.
ComputeDestOffset ==
    /\ pc = "placed"
    /\ IF scaling_mode = 3
       THEN /\ dest_x' = DestOffset(paper_width, dest_width, align_x_factor) - offset_x
            /\ dest_y' = DestOffset(paper_height, dest_height, align_y_factor) - offset_y
       ELSE /\ dest_x' = DestOffset(printable_width_pixels, dest_width, align_x_factor)
            /\ dest_y' = DestOffset(printable_height_pixels, dest_height, align_y_factor)
    /\ pc' = "positioned"
    /\ UNCHANGED << op, calls, length, page_range, pDevMode, job_id,
                    total_written, write_success, page_count, pages_to_print,
                    i, success, result, g_last_error_message,
                    last_error_calls, range_tokens >>
    /\ UNCHANGED << option_list, print_options, pdf_pixel_width,
                    pdf_pixel_height, printable_width_pixels,
                    printable_height_pixels, paper_width, paper_height,
                    scaling_mode, dest_width, dest_height, offset_x, offset_y,
                    alignment, alignment_lower, align_x_factor, align_y_factor >>
    /\ UNCHANGED << thread_vars, lib_vars >>

NextPlace == ComputeDestSize \/ ComputeDestOffset

SpecFit == InitFit /\ [][NextPlace]_vars

SpecPlace == InitPlace /\ [][NextPlace]_vars

\* The placement under every alignment: the alignment argument is made of
\* the words the code looks for and the factors are those the code derives
\* from it; in fit-to-paper mode the paper has a margin around the
\* printable area, which is the physical offset.
InitOffset ==
    /\ InitCall("_print_pdf_job_win", "place")
    /\ option_list = << >>
    /\ alignment \in { a \o b : a \in {<< >>, Word.left, Word.right},
                                b \in {<< >>, Word.top, Word.bottom} }
    /\ alignment_lower = Lowered(alignment)
    /\ align_x_factor = AlignX(alignment_lower)
    /\ align_y_factor = AlignY(alignment_lower)
    /\ scaling_mode \in ScalingModes
    /\ print_options \in
           { [DefaultOptions EXCEPT !.custom_scale = c] :
               c \in IF scaling_mode = 4
                     THEN {Ratio(1, 2), Ratio(3, 2)}
                     ELSE {Ratio(1, 1)} }
    /\ pdf_pixel_width \in 1..OffsetDim
    /\ pdf_pixel_height \in 1..OffsetDim
    /\ printable_width_pixels \in 1..OffsetDim
    /\ printable_height_pixels \in 1..OffsetDim
    /\ \E margin \in IF scaling_mode = 3 THEN {0, 1} ELSE {0} :
           /\ paper_width = printable_width_pixels + 2 * margin
           /\ paper_height = printable_height_pixels + 2 * margin
           /\ offset_x = margin
           /\ offset_y = margin
    /\ dest_width = 0
    /\ dest_height = 0
    /\ dest_x = 0
    /\ dest_y = 0

SpecOffset == InitOffset /\ [][NextPlace]_vars

(***************************************************************************)
(* The alignment of a PDF job on its own (lines 1026-1060): the alignment  *)
(* argument is NULL or two of the words below written one after the other; *)
(* strdup gives the copy or fails.                                         *)
(***************************************************************************)
AlignmentWords ==
    { <<  >>,
      << "l", "e", "f", "t" >>,
      << "R", "i", "g", "h", "t" >>,
      << "T", "O", "P" >>,
      << "b", "o", "t", "t", "o", "m" >>,
      << "c", "e", "n", "t", "e", "r" >>,
      << "L", "e", "F", "t" >>,
      << "r", "i", "g", "h", "t" >>,
      << "t", "o", "p" >>,
      << "B", "o", "t", "t", "o", "m" >> }

InitAlign ==
    /\ InitCall("_print_pdf_job_win", "align")
    /\ alignment \in {NULL} \cup { a \o b : a, b \in AlignmentWords }
    /\ alignment_lower = NULL
    /\ align_x_factor = 1
    /\ align_y_factor = 1
    /\ option_list = << >>
    /\ print_options = DefaultOptions
    /\ pdf_pixel_width = 0
    /\ pdf_pixel_height = 0
    /\ printable_width_pixels = 0
    /\ printable_height_pixels = 0
    /\ paper_width = 0
    /\ paper_height = 0
    /\ scaling_mode = 0
    /\ dest_width = 0
    /\ dest_height = 0
    /\ offset_x = 0
    /\ offset_y = 0
    /\ dest_x = 0
    /\ dest_y = 0

\* The alignment factors are set (lines 1026-1060); copied says whether
\* strdup returned a copy.
ParseAlignment(copied) ==
    /\ pc = "align"
    /\ IF alignment # NULL /\ copied
       THEN /\ alignment_lower' = Lowered(alignment)
            /\ align_x_factor' = AlignX(Lowered(alignment))
            /\ align_y_factor' = AlignY(Lowered(alignment))
       ELSE /\ alignment_lower' = NULL
            /\ align_x_factor' = 1
            /\ align_y_factor' = 1
    /\ pc' = "aligned"
    /\ UNCHANGED << op, calls, length, page_range, pDevMode, job_id,
                    total_written, write_success, page_count, pages_to_print,
                    i, success, result, g_last_error_message,
                    last_error_calls, range_tokens >>
    /\ UNCHANGED << option_list, print_options, pdf_pixel_width,
                    pdf_pixel_height, printable_width_pixels,
                    printable_height_pixels, paper_width, paper_height,
                    scaling_mode, dest_width, dest_height, alignment >>
    /\ UNCHANGED << offset_x, offset_y, dest_x, dest_y, thread_vars, lib_vars >>

NextAlign == \E copied \in BOOLEAN : ParseAlignment(copied)

SpecAlign == InitAlign /\ [][NextAlign]_vars

(***************************************************************************)
(* The CUPS build (the #else branches): raw_data_to_printer (lines         *)
(* 827-886), submit_raw_data_job (lines 2146-2202), print_pdf (lines       *)
(* 1261-1280) and submit_pdf_job (lines 2218-2237).  The raw functions     *)
(* write the payload to a temporary file and hand the file to              *)
(* cupsPrintFile; the PDF functions hand over the caller's file.  The      *)
(* option list built with cupsAddOption is local memory and is left out.   *)
(***************************************************************************)
\* The payload lengths of the CUPS runs.
PosixLengths == 0..MaxPayload

\* The value returned after cupsPrintFile: job_id > 0 (lines 885, 1279),
\* job_id > 0 ? job_id : 0 (lines 2201, 2236).
cups_result(o, id) ==
    IF o \in {"raw_data_to_printer", "print_pdf"}
    THEN (IF id > 0 THEN 1 ELSE 0)
    ELSE (IF id > 0 THEN id ELSE 0)

\* The input validation (lines 722-726, 1253-1257, 2039-2043, 2210-2214);
\* the raw functions go on to the temporary file, the PDF functions to the
\* spooler.
cups_Enter(o, pointers_ok, len, copies) ==
    /\ pc = "idle"
    /\ op' = o
    /\ length' = IF o \in RawOps THEN len ELSE 0
    /\ calls' = << >>
    /\ IF o \in RawOps
       THEN IF RawInputsValid(pointers_ok, len)
            THEN pc' = "cups_mkstemp" /\ UNCHANGED result
            ELSE pc' = "done" /\ result' = RawFailure(o)
       ELSE IF PdfInputsValid(pointers_ok, copies)
            THEN pc' = "cups_print" /\ UNCHANGED result
            ELSE pc' = "done" /\ result' = 0
    /\ UNCHANGED << page_range, pDevMode, job_id, total_written, write_success,
                    page_count, pages_to_print, i, success, g_last_error_message, last_error_calls >>
    /\ UNCHANGED << thread_vars, range_tokens, unit_vars, lib_vars >>

\* mkstemp (lines 840-845): without a descriptor there is no file.
cups_mkstemp(ok) ==
    /\ pc = "cups_mkstemp"
    /\ IF ok
       THEN /\ calls' = Append(calls, Dev("mkstemp", TRUE))
            /\ pc' = "cups_fdopen"
            /\ UNCHANGED result
       ELSE Return(<< Dev("mkstemp", FALSE) >>, RawFailure(op))
    /\ UNCHANGED << op, length, page_range, pDevMode, job_id, total_written,
                    write_success, page_count, pages_to_print, i, success,
                    g_last_error_message, last_error_calls >>
    /\ UNCHANGED << thread_vars, range_tokens, unit_vars, lib_vars >>

\* fdopen (lines 847-853); when it fails the descriptor is closed and the
\* file removed.
cups_fdopen(ok) ==
    /\ pc = "cups_fdopen"
    /\ IF ok
       THEN /\ calls' = Append(calls, Dev("fdopen", TRUE))
            /\ pc' = "cups_fwrite"
            /\ UNCHANGED result
       ELSE Return(<< Dev("fdopen", FALSE), Dev("close", TRUE), Dev("unlink", TRUE) >>,
                   RawFailure(op))
    /\ UNCHANGED << op, length, page_range, pDevMode, job_id, total_written,
                    write_success, page_count, pages_to_print, i, success,
                    g_last_error_message, last_error_calls >>
    /\ UNCHANGED << thread_vars, range_tokens, unit_vars, lib_vars >>

\* fwrite and fclose (lines 855-856).  fwrite reports the bytes the stream
\* took, `written`; fclose flushes what the stream still buffers, and when
\* the flush fails fewer bytes than that are in the file, `stored`.  The
\* code does not read what fclose returns.
StreamCalls(len, written, stored) ==
    << Call("fwrite", written = len, -1, 0, len, written),
       Call("fclose", stored = written, -1, 0, written, stored) >>

\* fwrite, fclose and the test of the written count (lines 855-862).
cups_fwrite(written, stored) ==
    /\ pc = "cups_fwrite"
    /\ total_written' = written
    /\ IF written # length
       THEN Return(StreamCalls(length, written, stored) \o << Dev("unlink", TRUE) >>,
                   RawFailure(op))
       ELSE /\ calls' = calls \o StreamCalls(length, written, stored)
            /\ pc' = "cups_print"
            /\ UNCHANGED result
    /\ UNCHANGED << op, length, page_range, pDevMode, job_id, write_success,
                    page_count, pages_to_print, i, success,
                    g_last_error_message, last_error_calls >>
    /\ UNCHANGED << thread_vars, range_tokens, unit_vars, lib_vars >>

\* cupsPrintFile and what follows it: cupsFreeOptions, and unlink of the
\* temporary file in the raw functions (lines 876-885, 1272-1279, 2193-2201,
\* 2228-2236).
cups_PrintFile(id) ==
    /\ pc = "cups_print"
    /\ job_id' = id
    /\ Return(<< Dev("cupsPrintFile", id > 0) >> \o
                 (IF op \in RawOps THEN << Dev("unlink", TRUE) >> ELSE << >>),
              cups_result(op, id))
    /\ UNCHANGED << op, length, page_range, pDevMode, total_written,
                    write_success, page_count, pages_to_print, i, success,
                    g_last_error_message, last_error_calls >>
    /\ UNCHANGED << thread_vars, range_tokens, unit_vars, lib_vars >>

NextPosix ==
    \/ \E o \in RawOps \cup PdfOps, pointers_ok \in BOOLEAN, len \in PosixLengths,
          copies \in {0, 1, 2} : cups_Enter(o, pointers_ok, len, copies)
    \/ \E ok \in BOOLEAN : cups_mkstemp(ok)
    \/ \E ok \in BOOLEAN : cups_fdopen(ok)
    \/ \E written \in 0..length :
          \E stored \in 0..written : cups_fwrite(written, stored)
    \/ \E id \in -1..MaxJobId : cups_PrintFile(id)
    \/ Returned

SpecPosix == Init /\ [][NextPosix]_vars

(***************************************************************************)
(* Properties of the device session.                                       *)
(***************************************************************************)
\* Positions of DevCalls whose call plays the given role / has the result.
KindAt(d, k) == Kind(d[k].fn)

Positions(d, kind) == {k \in 1..Len(d) : KindAt(d, k) = kind}

Succeeded(d, kind) == \E k \in Positions(d, kind) : d[k].ok

Failed(d, kind) == \E k \in Positions(d, kind) : ~d[k].ok

\* A page is open at position k: a successful StartPage precedes k and no
\* EndPage call lies between the two.
PageOpenAt(d, k) ==
    \E j \in 1..(k - 1) :
        /\ KindAt(d, j) = "StartPage" /\ d[j].ok
        /\ \A m \in (j + 1)..(k - 1) : KindAt(d, m) # "EndPage"

\* A call with the given role and result precedes position k.
DoneBefore(d, kind, k) == \E j \in 1..(k - 1) : KindAt(d, j) = kind /\ d[j].ok

PageOps == {"StartPage", "Write", "Render", "Query", "EndPage"}

\* C1: the calls on the printer resource follow the session protocol:
\* StartDocument only after a successful Open; StartPage only after a
\* successful StartDocument and never while a page is open; write / render
\* only while a page is open; EndDocument only when no page is open; Close
\* is the last call on the resource.
C1_SessionProtocol ==
    LET d == DevCalls
    IN  \A k \in 1..Len(d) :
          /\ KindAt(d, k) = "StartDocument" => DoneBefore(d, "Open", k)
          /\ KindAt(d, k) = "StartPage" =>
                DoneBefore(d, "StartDocument", k) /\ ~PageOpenAt(d, k)
          /\ KindAt(d, k) \in {"Write", "Render"} => PageOpenAt(d, k)
          /\ KindAt(d, k) = "EndDocument" => ~PageOpenAt(d, k)
          /\ KindAt(d, k) = "Close" => k = Len(d)

C1_Witness ==
    /\ pc = "done"
    /\ op = "print_pdf"
    /\ NumCalls("FPDF_RenderPage") >= 2
    /\ \E k \in 1..Len(calls) : calls[k].fn = "EndPage" /\ ~calls[k].ok

\* C2: once the printer resource has been opened it is released exactly
\* once before the call returns: never twice, and never left open.
C2_ReleasedExactlyOnce ==
    LET d == DevCalls
    IN  /\ Cardinality(Positions(d, "Close")) <= 1
        /\ \A k \in Positions(d, "Close") : DoneBefore(d, "Open", k)
        /\ (pc = "done" /\ Succeeded(d, "Open")) =>
              Cardinality(Positions(d, "Close")) = 1

C2_Witness ==
    /\ pc = "done"
    /\ op = "submit_raw_data_job"
    /\ Failed(DevCalls, "StartDocument")
    /\ NumKind("Close") = 1

\* The page calls of the PDF path that can fail.
IsPageFailure(c) == c.fn \in {"FPDF_LoadPage", "StartPage", "EndPage"} /\ ~c.ok

\* C3: in a PDF job, when page load, StartPage or EndPage fails for an
\* included page k, no page after k is loaded, started or rendered; Abort
\* and not EndDocument is called, exactly once; the device context is
\* released and the call returns 0 / false.
C3_PageFailureStopsJob ==
    \A k \in 1..Len(calls) :
        (op \in PdfOps /\ IsPageFailure(calls[k])) =>
          /\ \A j \in 1..Len(calls) : calls[j].page <= calls[k].page
          /\ \A j \in (k + 1)..Len(calls) :
                calls[j].fn \notin {"FPDF_LoadPage", "StartPage", "FPDF_RenderPage"}
          /\ NumKind("EndDocument") = 0
          /\ pc = "done" =>
                /\ NumCalls("AbortDoc") = 1
                /\ NumCalls("DeleteDC") = 1
                /\ result = 0

C3_Witness ==
    /\ pc = "done"
    /\ op \in PdfOps
    /\ page_count = 5
    /\ \E k \in 1..Len(calls) : IsPageFailure(calls[k]) /\ calls[k].page = 1
    /\ \A k \in 1..page_count : pages_to_print[k]
    /\ NumCalls("AbortDoc") = 1

\* C4: when StartDocument succeeded, exactly one document-closing call
\* (EndDocument or Abort) is made, after the last page or chunk operation
\* and before Close.
DocClosings(d) == Positions(d, "EndDocument") \cup Positions(d, "Abort")

C4_DocumentClosedOnce ==
    LET d == DevCalls
    IN  /\ Cardinality(DocClosings(d)) <= 1
        /\ \A k \in DocClosings(d) :
              /\ DoneBefore(d, "StartDocument", k)
              /\ \A j \in 1..Len(d) : KindAt(d, j) \in PageOps => j < k
              /\ \A j \in Positions(d, "Close") : k < j
        /\ (pc = "done" /\ Succeeded(d, "StartDocument")) =>
              Cardinality(DocClosings(d)) = 1

C4_Witness ==
    /\ pc = "done"
    /\ op = "raw_data_to_printer"
    /\ Failed(DevCalls, "StartPage")
    /\ Cardinality(DocClosings(DevCalls)) = 1

\* A transfer step failed mid-session: a chunk write failed or was short,
\* StartPage failed, or EndPage failed.
TransferFailed(d) ==
    \E k \in 1..Len(d) :
        \/ KindAt(d, k) = "Write" /\ (~d[k].ok \/ d[k].got < d[k].req)
        \/ KindAt(d, k) \in {"StartPage", "EndPage"} /\ ~d[k].ok

\* C5: whenever a transfer step fails mid-session, the document is closed
\* through Abort and never through EndDocument, and Close is still made, on
\* the raw path as on the PDF path.
C5_TransferFailureAborts ==
    LET d == DevCalls
    IN  (pc = "done" /\ TransferFailed(d)) =>
          /\ Cardinality(Positions(d, "Abort")) = 1
          /\ Positions(d, "EndDocument") = {}
          /\ KindAt(d, Len(d)) = "Close"

\* C6: when Open fails, no other call is made on the printer resource, no
\* job identifier is produced and the operation returns 0 / false.
C6_OpenFailure ==
    Failed(DevCalls, "Open") =>
        /\ Len(DevCalls) = 1
        /\ job_id = 0
        /\ pc = "done"
        /\ result = 0

C6_Witness ==
    /\ op = "submit_pdf_job"
    /\ Failed(DevCalls, "Open")
    /\ pc = "done"

\* C7: when StartDocument fails after a successful Open, the resource is
\* released exactly once, no StartPage, write, render, EndDocument or Abort
\* call follows, and the operation returns 0 / false.
C7_StartDocumentFailure ==
    Failed(DevCalls, "StartDocument") =>
        /\ [k \in 1..Len(DevCalls) |-> KindAt(DevCalls, k)] =
              << "Open", "StartDocument", "Close" >>
        /\ DevCalls[1].ok
        /\ pc = "done"
        /\ result = 0

C7_Witness ==
    /\ op = "print_pdf"
    /\ Failed(DevCalls, "StartDocument")
    /\ pc = "done"

\* A step after StartDocument failed: StartPage, a chunk write, a page load
\* or EndPage.
LaterStepFailed ==
    \E k \in 1..Len(calls) :
        /\ calls[k].fn \in {"StartPagePrinter", "StartPage", "WritePrinter",
                            "FPDF_LoadPage", "EndPage"}
        /\ ~calls[k].ok

C9_RangeValidatedBeforeOpen ==
    ( /\ op \in PdfOps
      /\ pc = "pdf_parse"
      /\ ~parse_page_range(page_range, page_count).ok ) => DevCalls = << >>

\* The write calls of the trace and the bytes they transferred.
Writes == SelectSeq(calls, LAMBDA c : c.fn = "WritePrinter")

RECURSIVE SumGot(_)
SumGot(w) == IF w = << >> THEN 0 ELSE w[1].got + SumGot(Tail(w))

\* C10 as stated: the raw write is successful exactly when no chunk failed
\* and the transferred bytes add up to the length; a short transfer on any
\* chunk or a chunk failure makes it unsuccessful; and no write follows a
\* failed chunk.
C10_ShortTransferFails ==
    ( /\ pc = "done"
      /\ op = "raw_data_to_printer"
      /\ Writes # << >> ) =>
        /\ result = 1 <=>
              /\ \A k \in 1..Len(Writes) : Writes[k].ok
              /\ SumGot(Writes) = length
        /\ (\E k \in 1..Len(Writes) : ~Writes[k].ok \/ Writes[k].got < Writes[k].req)
              => result = 0
        /\ \A k \in 1..Len(Writes) : ~Writes[k].ok => k = Len(Writes)

\* C10 amended: the raw write is successful exactly when no chunk failed
\* and the transferred bytes add up to the length; a chunk failure makes it
\* unsuccessful and no write follows a failed chunk; after a short transfer
\* the next write asks for the bytes that remain, from the offset reached.
C10_RawWriteResult ==
    /\ \A k \in 1..Len(Writes) :
          /\ ~Writes[k].ok => k = Len(Writes)
          /\ Writes[k].off = SumGot(SubSeq(Writes, 1, k - 1))
          /\ Writes[k].req = Min(CHUNK_SIZE, length - Writes[k].off)
    /\ ( /\ pc = "done"
         /\ op = "raw_data_to_printer"
         /\ Writes # << >> ) =>
           /\ result = 1 <=>
                 /\ \A k \in 1..Len(Writes) : Writes[k].ok
                 /\ SumGot(Writes) = length
           /\ (\E k \in 1..Len(Writes) : ~Writes[k].ok) => result = 0

C10_Witness ==
    /\ pc = "done"
    /\ op = "raw_data_to_printer"
    /\ result = 1
    /\ \E k \in 1..Len(Writes) : Writes[k].ok /\ Writes[k].got < Writes[k].req

(***************************************************************************)
(* Properties of the chunked write.                                        *)
(***************************************************************************)
\* Every write call was successful and transferred what it requested.
AllFull(w) == \A k \in 1..Len(w) : w[k].ok /\ w[k].got = w[k].req

\* The sizes the write calls requested, in call order.
Requests(w) == [k \in 1..Len(w) |-> w[k].req]

RECURSIVE SumReq(_)
SumReq(w) == IF w = << >> THEN 0 ELSE w[1].req + SumReq(Tail(w))

\* A raw submission that went through its write loop and returned, every
\* chunk fully transferred.
RawCompletedFull ==
    /\ pc = "done"
    /\ op \in RawOps
    /\ Writes # << >>
    /\ AllFull(Writes)

\* C11 as stated: a raw submission of a 200,000-byte payload, with every
\* chunk fully transferred, completes in exactly 4 write calls, three of
\* 65,536 bytes followed by one of 8,192 bytes.
C11_LastChunk8192 ==
    (RawCompletedFull /\ length = 200000) =>
        Requests(Writes) = << 65536, 65536, 65536, 8192 >>

\* C11 amended: a raw submission of a 200,000-byte payload, with every
\* chunk fully transferred, completes in exactly 4 write calls, three of
\* 65,536 bytes followed by one of 3,392 bytes.
C11_ChunksOf200000 ==
    (RawCompletedFull /\ length = 200000) =>
        Requests(Writes) = << 65536, 65536, 65536, 3392 >>

C11_Witness ==
    /\ RawCompletedFull
    /\ length = 200000
    /\ op = "submit_raw_data_job"
    /\ Len(Writes) = 4

\* C12: for every payload length L > 0, every write call of the raw path
\* requests at most 65,536 bytes and starts at the offset equal to the number
\* of bytes transferred so far; when each call transfers what it requested,
\* the number of write calls is ceil(L / 65536), every call but the last
\* requests exactly 65,536 bytes, and the requested sizes sum to L, so each
\* payload byte is sent exactly once and in order.
C12_ChunkedWrite ==
    /\ \A k \in 1..Len(Writes) :
          /\ Writes[k].req <= CHUNK_SIZE
          /\ Writes[k].off = SumGot(SubSeq(Writes, 1, k - 1))
    /\ RawCompletedFull =>
          /\ Len(Writes) = (length + CHUNK_SIZE - 1) \div CHUNK_SIZE
          /\ \A k \in 1..(Len(Writes) - 1) : Writes[k].req = CHUNK_SIZE
          /\ SumReq(Writes) = length
          /\ \A k \in 1..Len(Writes) : Writes[k].off = (k - 1) * CHUNK_SIZE

C12_Witness ==
    /\ RawCompletedFull
    /\ length = 2 * CHUNK_SIZE
    /\ Len(Writes) = 2

(***************************************************************************)
(* Properties of the page loop.                                            *)
(***************************************************************************)
\* The 0-based pages on which fn was called, in call order.
PagesOf(fn) ==
    LET c == SelectSeq(calls, LAMBDA x : x.fn = fn)
    IN  [k \in 1..Len(c) |-> c[k].page]

\* The 0-based pages a mask includes, in ascending order.
MaskPages(mask) ==
    SelectSeq([k \in 1..Len(mask) |-> k - 1], LAMBDA p : mask[p + 1])

\* The page operations of the PDF page loop.
PageFns == {"FPDF_LoadPage", "StartPage", "FPDF_RenderPage", "EndPage"}

\* A PDF job that went through its page loop with every page operation
\* successful.
PdfAllPagesSucceeded ==
    /\ pc = "done"
    /\ op \in PdfOps
    /\ NumCalls("EndDoc") = 1
    /\ \A k \in 1..Len(calls) : calls[k].fn \in PageFns => calls[k].ok

\* C13: in a PDF job where every page operation succeeds, the pages that are
\* loaded, started, rendered and ended are exactly the pages included by the
\* page-range mask, each exactly once and in ascending page order whatever
\* the order of the tokens in the range string; for an excluded page no load,
\* StartPage, render or EndPage call is made (range "2,4-5" on 6 pages
\* processes pages 2, 4, 5 and skips 1, 3, 6).
C13_PagesFollowMask ==
    PdfAllPagesSucceeded =>
        /\ \A fn \in PageFns :
              PagesOf(fn) = MaskPages(pages_to_print)
        /\ (page_range = << "2", ",", "4", "-", "5" >> /\ page_count = 6) =>
              PagesOf("FPDF_RenderPage") = << 1, 3, 4 >>
        /\ (page_range = << "3", ",", "1" >> /\ page_count >= 3) =>
              PagesOf("FPDF_RenderPage") = << 0, 2 >>
        /\ page_range \in {NULL, << >>} =>
              PagesOf("FPDF_RenderPage") = [k \in 1..page_count |-> k - 1]

C13_Witness ==
    /\ PdfAllPagesSucceeded
    /\ page_range = << "2", ",", "4", "-", "5" >>
    /\ page_count = 6
    /\ PagesOf("EndPage") = << 1, 3, 4 >>
    /\ result # 0

(***************************************************************************)
(* Properties of parse_page_range.                                         *)
(***************************************************************************)
\* The token is a single page a with 1 <= a <= n or a range a-b with
\* 1 <= a <= b <= n.
ValidToken(t, n) == 1 <= t.a /\ t.a <= t.b /\ t.b <= n

\* parse_page_range has returned for a range string made only of valid
\* tokens.
ParsedValidTokens ==
    /\ pc = "parsed"
    /\ range_tokens # << >>
    /\ \A k \in 1..Len(range_tokens) : ValidToken(range_tokens[k], page_count)

\* The mask that is true exactly at the pages of the tokens.
UnionMask(toks, n) ==
    [p \in 1..n |-> \E k \in 1..Len(toks) : toks[k].a <= p /\ p <= toks[k].b]

\* C14: for every page count N >= 1 and a null or empty range string,
\* parse_page_range succeeds and the mask has all N entries true.
C14_EmptyRangeSelectsAll ==
    (pc = "parsed" /\ page_count >= 1 /\ page_range \in {NULL, << >>}) =>
        /\ success
        /\ pages_to_print = [p \in 1..page_count |-> TRUE]

C14_Witness ==
    /\ pc = "parsed"
    /\ page_range = NULL
    /\ page_count = ParsePages
    /\ success
    /\ Len(pages_to_print) = ParsePages

Reordered(toks) ==
    {[k \in 1..Len(toks) |-> toks[q[k]]] : q \in Permutations(1..Len(toks))}

\* ... by writing one of its tokens once more, in front or at the end.
Repeated(toks) ==
    UNION {{<< toks[k] >> \o toks, Append(toks, toks[k])} : k \in 1..Len(toks)}

\* ... by adding a valid token that overlaps pages the list already names.
Overlapping(toks, n) ==
    {Append(toks, t) : t \in {u \in Tokens(n) :
        /\ ValidToken(u, n)
        /\ \A p \in u.a..u.b : UnionMask(toks, n)[p]}}

\* C17: for every page count N and every list of valid range tokens, the
\* mask produced by parse_page_range is unchanged when tokens are reordered,
\* repeated, or overlap: setting an already-true page again has no further
\* effect.
C17_MaskIgnoresOrderAndRepeats ==
    ParsedValidTokens =>
        \A other \in Reordered(range_tokens) \cup Repeated(range_tokens)
                      \cup Overlapping(range_tokens, page_count) :
            LET r == parse_page_range(Join(other, FALSE), page_count)
            IN  r.ok /\ r.flags = pages_to_print

C17_Witness ==
    /\ ParsedValidTokens
    /\ page_count = 3
    /\ page_range = << "2", "-", "3", ",", "1", "-", "2" >>
    /\ pages_to_print = << TRUE, TRUE, TRUE >>

(***************************************************************************)
(* Properties of an invalid page range in a PDF job.                       *)
(***************************************************************************)
Tok(a, b, text) == [a |-> a, b |-> b, text |-> text]

\* The tokens of the range strings offered to the PDF operations: the pages
\* a..b each names and its text without surrounding blanks.
SampleTokens(range) ==
    CASE range = << "1" >> -> << Tok(1, 1, << "1" >>) >>
      [] range = << "2" >> -> << Tok(2, 2, << "2" >>) >>
      [] range = << "2", ",", "4", "-", "5" >> ->
            << Tok(2, 2, << "2" >>), Tok(4, 5, << "4", "-", "5" >>) >>
      [] range = << "3", ",", "1" >> -> << Tok(3, 3, << "3" >>), Tok(1, 1, << "1" >>) >>
      [] range = << "1", "-", "2", ",", " ", "2", "-", "3" >> ->
            << Tok(1, 2, << "1", "-", "2" >>), Tok(2, 3, << "2", "-", "3" >>) >>
      [] range = << "2", "-", "1" >> -> << Tok(2, 1, << "2", "-", "1" >>) >>
      [] range = << "0" >> -> << Tok(0, 0, << "0" >>) >>
      [] range = << "1", ",", "9" >> -> << Tok(1, 1, << "1" >>), Tok(9, 9, << "9" >>) >>
      [] OTHER -> << >>

\* The token has b < a, a < 1 or b > n, or n <= 0.
Offending(t, n) == t.b < t.a \/ t.a < 1 \/ t.b > n \/ n <= 0

\* The positions of the offending tokens of a list.
OffendingAt(toks, n) == {k \in 1..Len(toks) : Offending(toks[k], n)}

FirstOffending(toks, n) ==
    toks[CHOOSE k \in OffendingAt(toks, n) : \A j \in OffendingAt(toks, n) : k <= j]

\* The PDF job has called parse_page_range: the page count was positive and
\* the flags were allocated.
ParserWasCalled ==
    /\ op \in PdfOps
    /\ pc \in {"pdf_loop", "done"}
    /\ page_count >= 1
    /\ g_last_error_message.fmt # "Failed to allocate memory for page range flags"

\* The message parse_page_range sets for a token (line 187).
RangeError(text, n) == Err("Page range is invalid for a document with n pages", text, n)

FallibleOps == RawOps \cup PdfOps \cup JobControlOps

\* C18: every fallible public operation (raw_data_to_printer,
\* submit_raw_data_job, print_pdf, submit_pdf_job, pause_print_job,
\* resume_print_job, cancel_print_job) overwrites the calling thread's
\* last-error slot at its start, so that after any sequence of calls
\* get_last_error never returns a message produced by an earlier call than
\* the most recent one.
C18_NoStaleError ==
    (pc = "done" /\ op \in FallibleOps) =>
        \/ g_last_error_message = NoError
        \/ /\ last_error_calls # << >>
           /\ g_last_error_message = last_error_calls[Len(last_error_calls)]

\* C19: whenever a core submission operation (raw_data_to_printer,
\* submit_raw_data_job, print_pdf, submit_pdf_job) returns failure (false /
\* 0), it has called set_last_error during that call with a non-empty
\* message describing the failed step before returning; this holds for
\* input-validation failures, Open / StartDocument / StartPage failures and
\* write failures on the raw path as well as for the PDF path.
C19_FailureSetsError ==
    (pc = "done" /\ op \in RawOps \cup PdfOps /\ result = 0) =>
        /\ \E k \in 1..Len(last_error_calls) : last_error_calls[k] # NoError
        /\ g_last_error_message # NoError

\* The message of the last set_last_error that thread t completed before
\* event k of the log; the empty string when there is none.
LastSetBefore(t, k) ==
    LET sets == {j \in 1..(k - 1) : error_log[j].thread = t /\ error_log[j].kind = "set"}
    IN  IF sets = {} THEN NoError
        ELSE error_log[CHOOSE j \in sets : \A m \in sets : m <= j].msg

C21_LibraryInitialisedOnce == fpdf_init_calls <= 1

(***************************************************************************)
(* The option normalizer.                                                  *)
(***************************************************************************)
Normalized == op = "parse_windows_options" /\ pc = "normalized"

Pair(key, value) == [key |-> key, value |-> value]

HasKey(pairs, key) == \E k \in 1..Len(pairs) : pairs[k].key = key

\* The value of the last pair of pairs that has the key.
LastValue(pairs, key) ==
    pairs[CHOOSE k \in 1..Len(pairs) :
              /\ pairs[k].key = key
              /\ \A j \in (k + 1)..Len(pairs) : pairs[j].key # key].value

\* C22: an empty option list gives collate = true, duplex = Simplex,
\* custom_scale = 1.0, orientation and quality Default (0), paper size, paper
\* source and media type unset (0), and its duplex value is the one that
\* duplex=singleSided gives.
C22_EmptyListDefaults ==
    (Normalized /\ option_list = << >>) =>
        /\ print_options.collate = TRUE
        /\ print_options.custom_scale = Ratio(1, 1)
        /\ print_options.orientation = 0
        /\ print_options.print_quality = 0
        /\ print_options.paper_size_id = 0
        /\ print_options.paper_source_id = 0
        /\ print_options.media_type_id = 0
        /\ print_options.duplex_mode =
               parse_windows_options(
                   << Pair("duplex", Word.singleSided) >>).duplex_mode

\* C23: a list with a color-mode pair and no print-quality pair gets quality
\* Medium (-3); a list with a print-quality pair gets the quality of its last
\* print-quality pair (draft -1, low -2, high -4, anything else -3), wherever
\* color-mode stands.
C23_QualityOfLastPair ==
    Normalized =>
        /\ (HasKey(option_list, "color-mode")
              /\ ~HasKey(option_list, "print-quality"))
           => print_options.print_quality = -3
        /\ HasKey(option_list, "print-quality")
           => LET v == LastValue(option_list, "print-quality")
              IN  print_options.print_quality =
                      CASE v = Word.draft -> -1
                        [] v = Word.low -> -2
                        [] v = Word.high -> -4
                        [] OTHER -> -3

\* A list with print-quality=high before a color-mode pair was normalized.
C23_Witness ==
    /\ Normalized
    /\ Len(option_list) = 2
    /\ option_list[1] = Pair("print-quality", Word.high)
    /\ option_list[2].key = "color-mode"
    /\ print_options.print_quality = -4

RecognizedKeys ==
    {"paper-size-id", "paper-source-id", "orientation", "color-mode",
     "print-quality", "media-type-id", "custom-scale-factor", "collate",
     "duplex"}

\* Every recognized key occurs at most once.
OncePerKey(pairs) ==
    \A j, k \in 1..Len(pairs) :
        (j # k /\ pairs[j].key = pairs[k].key) => pairs[j].key \notin RecognizedKeys

\* The lists with the same pairs in another order.
Permuted(pairs) ==
    { [k \in 1..Len(pairs) |-> pairs[f[k]]] :
        f \in { g \in [1..Len(pairs) -> 1..Len(pairs)] :
                    \A j, k \in 1..Len(pairs) : g[j] = g[k] => j = k } }

\* The lists with one pair of an unrecognized key put in somewhere.
WithUnknown(pairs) ==
    { SubSeq(pairs, 1, k) \o << Pair("job-priority", << "5" >>) >>
          \o SubSeq(pairs, k + 1, Len(pairs)) : k \in 0..Len(pairs) }

\* C24: when every recognized key occurs at most once, every permutation of
\* the list gives the same options, and so does the list with a pair of an
\* unrecognized key put in anywhere.
C24_OrderAndUnknownKeysIgnored ==
    (Normalized /\ OncePerKey(option_list)) =>
        \A other \in Permuted(option_list) \cup WithUnknown(option_list) :
            parse_windows_options(other) = print_options

\* A list of a print-quality and a color-mode pair was normalized.
C24_Witness ==
    /\ Normalized
    /\ Len(option_list) = 2
    /\ option_list[1].key = "color-mode"
    /\ option_list[2] = Pair("print-quality", Word.draft)
    /\ print_options.print_quality = -1

\* C25: when the last duplex pair of the list has a value that is none of
\* singleSided, duplexLongEdge, duplexShortEdge, duplex is at its default (the
\* value an empty list gives), also when a recognized duplex pair stands
\* earlier in the list.
C25_InvalidDuplexLeavesDefault ==
    (/\ Normalized
     /\ HasKey(option_list, "duplex")
     /\ LastValue(option_list, "duplex") \notin
            {Word.singleSided, Word.duplexLongEdge, Word.duplexShortEdge})
    => print_options.duplex_mode = parse_windows_options(<< >>).duplex_mode

\* The string is an unsigned decimal number.
Numeric(v) ==
    /\ v # << >>
    /\ \A k \in 1..Len(v) : isdigit(v[k]) \/ v[k] = "."
    /\ Cardinality({k \in 1..Len(v) : v[k] = "."}) <= 1
    /\ \E k \in 1..Len(v) : isdigit(v[k])

\* C26: when the last pair of a numeric option has a value that is no number,
\* the field is at its default: the ids 0 (unset), custom_scale 1.0.
C26_MalformedNumberLeavesDefault ==
    Normalized =>
        /\ \A f \in { Pair("paper-size-id", "paper_size_id"),
                      Pair("paper-source-id", "paper_source_id"),
                      Pair("media-type-id", "media_type_id"),
                      Pair("custom-scale-factor", "custom_scale") } :
               (/\ HasKey(option_list, f.key)
                /\ ~Numeric(LastValue(option_list, f.key)))
               => print_options[f.value] = DefaultOptions[f.value]

(***************************************************************************)
(* The destination size.                                                   *)
(***************************************************************************)
\* _scale_to_fit was applied to the page and the printable area.
Fitted == pc = "placed" /\ scaling_mode = 0

\* C27: for positive sizes, _scale_to_fit gives dest_width <= target_width
\* and dest_height <= target_height, one of them equal, and the other axis is
\* the source's aspect ratio applied to the constraining one, cut to an
\* integer.
C27_FitsWithSourceAspect ==
    Fitted =>
        /\ dest_width <= printable_width_pixels
        /\ dest_height <= printable_height_pixels
        /\ \/ /\ dest_width = printable_width_pixels
              /\ dest_height =
                     (printable_width_pixels * pdf_pixel_height)
                         \div pdf_pixel_width
           \/ /\ dest_height = printable_height_pixels
              /\ dest_width =
                     (printable_height_pixels * pdf_pixel_width)
                         \div pdf_pixel_height

\* C28: for a positive size d that _scale_to_fit returned, _scale_to_fit of d
\* into the target d returns d; and every result is <= the target on at least
\* one axis.
C28_FixedPoint ==
    Fitted =>
        /\ (dest_width > 0 /\ dest_height > 0)
           => scale_to_fit(dest_width, dest_height, dest_width, dest_height)
                  = [width |-> dest_width, height |-> dest_height]
        /\ \/ dest_width <= printable_width_pixels
           \/ dest_height <= printable_height_pixels

\* C30: under ShrinkToFit (mode 2) the destination is the page's pixel size
\* when the page fits the printable area on both axes, and _scale_to_fit of
\* the page into the printable area otherwise; so it exceeds neither the
\* printable area nor the page's pixel size on any axis.
C30_ShrinkToFit ==
    (pc = "placed" /\ scaling_mode = 2) =>
        /\ IF /\ pdf_pixel_width <= printable_width_pixels
              /\ pdf_pixel_height <= printable_height_pixels
           THEN /\ dest_width = pdf_pixel_width
                /\ dest_height = pdf_pixel_height
           ELSE [width |-> dest_width, height |-> dest_height] =
                    scale_to_fit(pdf_pixel_width, pdf_pixel_height,
                                 printable_width_pixels,
                                 printable_height_pixels)
        /\ dest_width <= printable_width_pixels
        /\ dest_height <= printable_height_pixels
        /\ dest_width <= pdf_pixel_width
        /\ dest_height <= pdf_pixel_height

\* A page of 4 x 3 pixels was shrunk into a printable area of 2 x 2.
C30_Witness ==
    /\ pc = "placed"
    /\ scaling_mode = 2
    /\ pdf_pixel_width = 4
    /\ pdf_pixel_height = 3
    /\ printable_width_pixels = 2
    /\ printable_height_pixels = 2
    /\ dest_width = 2
    /\ dest_height = 1

(***************************************************************************)
(* The alignment factors (0 is 0.0, 1 is 0.5, 2 is 1.0).                   *)
(***************************************************************************)
\* The alignment string holds the word in some letter case.
Contains(word) == alignment # NULL /\ strstr(Lowered(alignment), word)

\* C29, as stated: a string that contains "left" gets the horizontal factor
\* 0.0, one that contains "right" gets 1.0, one that contains "top" gets the
\* vertical factor 0.0, one that contains "bottom" gets 1.0, in any letter
\* case; an axis without such a word, and a null alignment, get 0.5.
C29_AsStated ==
    pc = "aligned" =>
        /\ Contains(Word.left) => align_x_factor = 0
        /\ Contains(Word.right) => align_x_factor = 2
        /\ Contains(Word.top) => align_y_factor = 0
        /\ Contains(Word.bottom) => align_y_factor = 2
        /\ (~Contains(Word.left) /\ ~Contains(Word.right)) => align_x_factor = 1
        /\ (~Contains(Word.top) /\ ~Contains(Word.bottom)) => align_y_factor = 1

\* C29, amended: "left" goes before "right" and "top" before "bottom", and a
\* string of which no copy could be made is treated as a null alignment.
C29_AlignmentFactors ==
    pc = "aligned" =>
        IF alignment = NULL \/ alignment_lower = NULL
        THEN align_x_factor = 1 /\ align_y_factor = 1
        ELSE /\ align_x_factor =
                    IF Contains(Word.left) THEN 0
                    ELSE IF Contains(Word.right) THEN 2 ELSE 1
             /\ align_y_factor =
                    IF Contains(Word.top) THEN 0
                    ELSE IF Contains(Word.bottom) THEN 2 ELSE 1

\* The factors of "leftRight" were set from its copy.
C29_Witness ==
    /\ pc = "aligned"
    /\ alignment = Word.left \o << "R", "i", "g", "h", "t" >>
    /\ alignment_lower = Word.left \o Word.right
    /\ align_x_factor = 0
    /\ align_y_factor = 1

(***************************************************************************)
(* Properties of the submission entry points.                              *)
(***************************************************************************)
\* C39: a submission with invalid inputs (a missing printer name, payload,
\* path or document name, a non-positive length or copy count) returns
\* false / 0 without one collaborator call and leaves the last-error slot
\* as it was.  The validation is the only way from the entry to the return
\* in one step; a non-positive length is seen in the state as well.
C39_InvalidInputsNoEffect ==
    /\ [](( /\ pc = "done"
            /\ op \in RawOps
            /\ length <= 0 ) =>
              (calls = << >> /\ result = 0 /\ last_error_calls = << >>))
    /\ [][( /\ pc = "idle"
            /\ pc' = "done"
            /\ op' \in RawOps \cup PdfOps ) =>
              /\ calls' = << >>
              /\ result' = 0
              /\ g_last_error_message' = g_last_error_message
              /\ last_error_calls' = last_error_calls]_vars

C39_Witness ==
    /\ pc = "done"
    /\ op = "submit_raw_data_job"
    /\ length = 0
    /\ calls = << >>
    /\ result = 0
    /\ g_last_error_message # NoError

(***************************************************************************)
(* Properties of the PDF library resources.                                *)
(***************************************************************************)
\* Positions of the calls of fn in the trace / of those on page p.
CallsOf(fn) == {k \in 1..Len(calls) : calls[k].fn = fn}

PageCallsOf(fn, p) == {k \in CallsOf(fn) : calls[k].page = p}

\* C38: on the PDF path a loaded document is closed exactly once before the
\* call returns; every loaded page is closed exactly once, before the next
\* page is loaded and before the document is ended or aborted, also when
\* StartPage or EndPage fails; a failed document load returns 0 and the
\* device is not opened.
C38_DocumentAndPagesClosedOnce ==
    op \in PdfOps =>
      /\ Cardinality(CallsOf("FPDF_CloseDocument")) <= 1
      /\ \A k \in CallsOf("FPDF_CloseDocument") :
            /\ \E j \in 1..(k - 1) : calls[j].fn = "FPDF_LoadDocument" /\ calls[j].ok
            /\ k = Len(calls)
      /\ \A k \in CallsOf("FPDF_LoadDocument") :
            IF calls[k].ok
            THEN pc = "done" => Cardinality(CallsOf("FPDF_CloseDocument")) = 1
            ELSE /\ pc = "done"
                 /\ result = 0
                 /\ DevCalls = << >>
                 /\ CallsOf("FPDF_CloseDocument") = {}
      /\ \A k \in CallsOf("FPDF_LoadPage") :
            LET closes == PageCallsOf("FPDF_ClosePage", calls[k].page)
            IN  IF calls[k].ok
                THEN /\ Cardinality(closes) = 1
                     /\ \A c \in closes :
                           /\ k < c
                           /\ \A j \in CallsOf("FPDF_LoadPage") : j <= k \/ c < j
                           /\ \A j \in DocClosings(calls) : c < j
                ELSE closes = {}
      /\ \A c \in CallsOf("FPDF_ClosePage") :
            \E k \in PageCallsOf("FPDF_LoadPage", calls[c].page) : k < c /\ calls[k].ok

C38_Witness ==
    /\ pc = "done"
    /\ op = "print_pdf"
    /\ \E k \in CallsOf("StartPage") : ~calls[k].ok /\ calls[k].page = 2
    /\ Cardinality(CallsOf("FPDF_ClosePage")) = 2
    /\ Cardinality(CallsOf("FPDF_LoadPage")) = 2
    /\ Cardinality(CallsOf("FPDF_CloseDocument")) = 1

(***************************************************************************)
(* Properties of the message pump.                                         *)
(***************************************************************************)
\* A drain of the message queue lies strictly between positions j and k.
DrainedBetween(j, k) == \E m \in (j + 1)..(k - 1) : calls[m].fn = "PeekMessageW"

\* C33: a Windows submission drains the pending messages right after every
\* successful chunk write and right before every page load, so that a drain
\* lies between any two chunk writes and between any two page renderings.
C33_DrainBetweenSteps ==
    /\ \A k \in CallsOf("WritePrinter") :
          calls[k].ok => (k < Len(calls) /\ calls[k + 1].fn = "PeekMessageW")
    /\ \A k \in CallsOf("FPDF_LoadPage") :
          k > 1 /\ calls[k - 1].fn = "PeekMessageW"
    /\ \A j, k \in CallsOf("WritePrinter") : j < k => DrainedBetween(j, k)
    /\ \A j, k \in CallsOf("FPDF_RenderPage") : j < k => DrainedBetween(j, k)

C33_Witness ==
    /\ pc = "done"
    /\ Cardinality(CallsOf("WritePrinter")) = 2
    /\ Cardinality(CallsOf("PeekMessageW")) = 2

(***************************************************************************)
(* The print and the submit variant of a submission.                       *)
(***************************************************************************)
PrintVariants == {"raw_data_to_printer", "print_pdf"}

SubmitVariants == {"submit_raw_data_job", "submit_pdf_job"}

\* The finished submission went through: every chunk write succeeded and
\* the bytes add up to the length (raw), the document was ended and not
\* aborted (PDF).  The predicate reads the calls and their results only,
\* not the variant that made them.
SubmissionSucceeded ==
    IF op \in RawOps
    THEN /\ Succeeded(DevCalls, "StartPage")
         /\ \A k \in 1..Len(Writes) : Writes[k].ok
         /\ SumGot(Writes) = length
    ELSE Succeeded(DevCalls, "EndDocument")

CupsSubmissionFailed ==
    \E k \in 1..Len(calls) :
        /\ calls[k].fn \in {"mkstemp", "fdopen", "fwrite", "fclose", "cupsPrintFile"}
        /\ ~calls[k].ok

\* C32: in the CUPS build submit_raw_data_job and submit_pdf_job return the
\* spooler's job identifier when it is positive and 0 on every failure of
\* the submission (the temporary file is not created or not written, the
\* spooler rejects the job); raw_data_to_printer and print_pdf return true
\* exactly when the identifier is positive.
C32_PosixResult ==
    (pc = "done" /\ op \in PrintVariants \cup SubmitVariants) =>
      /\ op \in SubmitVariants => result = (IF job_id > 0 THEN job_id ELSE 0)
      /\ op \in PrintVariants => (result \in {0, 1} /\ (result = 1 <=> job_id > 0))
      /\ CupsSubmissionFailed => result = 0

\* C40: on the raw path of the CUPS build the temporary file is removed
\* exactly once on every way out after it was created, and not at all when
\* it was not created; the spooler is asked to print the file only when the
\* whole payload is in it.
C40_TempFileRemovedOnce ==
    op \in RawOps =>
      /\ Cardinality(CallsOf("unlink")) <= 1
      /\ \A k \in CallsOf("unlink") :
            /\ \E j \in 1..(k - 1) : calls[j].fn = "mkstemp" /\ calls[j].ok
            /\ k = Len(calls)
      /\ \A k \in CallsOf("mkstemp") :
            pc = "done" => Cardinality(CallsOf("unlink")) = (IF calls[k].ok THEN 1 ELSE 0)
      /\ \A k \in CallsOf("cupsPrintFile") :
            \E j \in 1..(k - 1) : calls[j].fn = "fclose" /\ calls[j].got = length

(***************************************************************************)
(* Properties of a PDF job with a page range.                              *)
(***************************************************************************)
\* C36: when parse_page_range succeeds on a range string that is not empty,
\* the mask includes at least one page, so a PDF job with such a range that
\* succeeds has rendered at least one page; a range of commas and white
\* space does not give a successful job without pages.
C36_NonEmptyRangePrintsAPage ==
    (op \in PdfOps /\ page_range # NULL /\ page_range # << >>) =>
      /\ pc = "pdf_loop" => \E k \in 1..page_count : pages_to_print[k]
      /\ (pc = "done" /\ result # 0) => NumCalls("FPDF_RenderPage") >= 1

(***************************************************************************)
(* Properties of the device configuration.                                 *)
(***************************************************************************)
\* C34: whenever a submission got past Open, the printer resource was
\* opened with the configuration record that get_modified_devmode filled
\* with the requested options; no job goes on with the driver's default
\* configuration because the record could not be obtained.
C34_OpenedWithRequestedConfiguration ==
    (op \in RawOps \cup PdfOps /\ Succeeded(DevCalls, "Open")) => pDevMode = "set"

(***************************************************************************)
(* Termination of the raw submission.                                      *)
(***************************************************************************)
\* C35: every raw submission on Windows comes to its end, whatever the
\* payload length and whatever the writes report, a write that succeeds
\* with zero bytes included: once the write loop is entered, the session is
\* ended (EndPage, EndDocument, Close) and the call returns.
C35_RawSubmissionTerminates == (pc = "raw_write") ~> (pc = "done")

(***************************************************************************)
(* Properties of the destination offset.                                   *)
(***************************************************************************)
\* (container - dest) * halves / 2 with the fraction cut off towards zero,
\* in integers.
AlignedOffset(container, dest, halves) ==
    LET d == container - dest
    IN  IF d < 0 THEN -(((-d) * halves) \div 2) ELSE (d * halves) \div 2

\* C37: in every scaling mode but fit-to-paper and under every alignment, a
\* destination rectangle that is not larger than the printable area on
\* either axis is placed inside the printable area: 0 <= offset and
\* offset + size <= printable size on each axis.  In fit-to-paper mode the
\* offset is taken on the physical paper, (paper - size) * factor, and the
\* physical offset of the printable area is subtracted.  Device sizes are
\* below 2^24 pixels, where the conversion of the difference to float is
\* exact.
C37_PlacedInsidePrintableArea ==
    pc = "positioned" =>
      /\ ( /\ scaling_mode # 3
           /\ dest_width <= printable_width_pixels
           /\ dest_height <= printable_height_pixels ) =>
             /\ 0 <= dest_x
             /\ dest_x + dest_width <= printable_width_pixels
             /\ 0 <= dest_y
             /\ dest_y + dest_height <= printable_height_pixels
      /\ scaling_mode = 3 =>
             /\ dest_x = AlignedOffset(paper_width, dest_width, align_x_factor) - offset_x
             /\ dest_y = AlignedOffset(paper_height, dest_height, align_y_factor) - offset_y

C37_Witness ==
    /\ pc = "positioned"
    /\ scaling_mode = 1
    /\ align_x_factor = 2
    /\ align_y_factor = 1
    /\ dest_width < printable_width_pixels
    /\ dest_x = printable_width_pixels - dest_width
    /\ printable_height_pixels - dest_height = 2
    /\ dest_y = 1


====
